---------------------------- MODULE Spec2Model ----------------------------
(***************************************************************************)
(* RQCache: a read-through, peer-replicated in-memory cache node.          *)
(*                                                                         *)
(* One module, one specification per subsystem:                            *)
(*   SpecLRU    package lru        (lru/lru.go)                            *)
(*   SpecSF     package singleflight (singleflight/singleflight.go)        *)
(*   SpecGroup  Group.Get over the cache guard (cache.go), the dedup group *)
(*              and the peer client (http.go)                              *)
(*   SpecHTTP   HTTPPool.ServeHTTP (http.go)                               *)
(*   SpecPool   HTTPPool.Set and HTTPPool.PickPeer, called concurrently    *)
(*   SpecRing   the hash ring behind them, for any hash function           *)
(*   SpecView   ByteView and the buffers its callers hold                  *)
(*   SpecGuard  cache.add and cache.get, called concurrently (cache.go)    *)
(***************************************************************************)
EXTENDS Integers, Sequences, FiniteSets, TLC

VARIABLES
    \* ---- package lru: one Cache object and what a test harness observes
    lru,        \* the lru.Cache object under test
    lastOp,     \* the operation that produced this state, with its result
                \* and whether its key was in the store before it
    touch,      \* history: key -> time of its most recent touch (0: never)
    clock,      \* history: number of operations performed so far
    scn,        \* history: progress of the run Add(a), Add(b), Add(c)
    \* ---- package singleflight: one Group and the goroutines calling Do
    sfMu,       \* g.mu: the goroutine holding it, or Nil
    sfMNil,     \* g.m == nil: the map has not been made yet
    sfM,        \* g.m: a map key -> call (an index of sfCalls)
    sfCalls,    \* the call objects allocated so far (wg, val, err)
    sfPc,       \* goroutine -> its position in Do
    sfKey,      \* goroutine -> the key argument of its Do
    sfC,        \* goroutine -> its local c (an index of sfCalls)
    sfRet,      \* goroutine -> what its Do returned, NotReturned before
    sfSaw,      \* history: goroutine -> what it found when it looked its
                \* key up: the calls for the key whose fn had not returned,
                \* and whether the call it joined had already signalled;
                \* and the calls for the key whose fn had returned when its
                \* Do began
    sfStarted,  \* history: number of Do calls made so far
    \* ---- HTTPPool.ServeHTTP: the request being served and its response
    httpReq,    \* the request: its URL path, and what the calls it makes
                \* into the Group and the encoder will answer
    httpResp,   \* the http.ResponseWriter after the handler returned
    \* ---- Group.Get: one Group, its cache guard and the goroutines calling Get
    mainCache,  \* the cache struct: lru (<<>> for nil, or <<Cache>>), cacheBytes
    gPc,        \* goroutine -> its position in Group.Get
    gKey,       \* goroutine -> the key argument of its Get
    gRet,       \* goroutine -> what its Get returned, NoResult before
    gLoad,      \* history: goroutine -> what its lookup did so far
    gCount,     \* history: Get calls made, and per key the loader calls,
                \* the peer fetches and the value last stored by a load
    \* ---- HTTPPool.Set / PickPeer: one pool and the goroutines calling them
    ringHash,   \* the hash function of the ring: name -> hash value
    poolMu,     \* p.mu: the goroutine holding it, or Nil
    poolPeers,  \* p.peers: <<>> for nil, or <<Map>>
    poolGetters,\* p.httpGetters: a map peer -> httpGetter (<<>>: nil map)
    poolPc,     \* goroutine -> its position in Set or PickPeer
    poolArg,    \* goroutine -> the arguments of its call
    poolRet,    \* goroutine -> what its PickPeer returned, NoPick before
    poolSaw,    \* history: goroutine -> what its PickPeer read under p.mu
    poolHist,   \* history: calls made, which Set built the ring and the
                \* client map, the peers of the last completed Set, the ring
                \* before the current one, the owners PickPeer saw per key
    \* ---- ByteView: one cache entry's value and the buffers of its callers
    viewHeap,   \* the byte arrays allocated so far
    viewEntry,  \* the entry's ByteView: b is an index of viewHeap
    viewBufs,   \* the buffers ByteSlice returned, held by callers
    viewLast,   \* the last call and what it returned
    viewBuilt,  \* history: the bytes the ByteView was built from
    \* ---- cache (cache.go): one guard and the goroutines calling add and get
    guardMu,    \* c.mu: the goroutine holding it, or Nil
    guardC,     \* the cache struct: lru (<<>> for nil, or <<Cache>>), cacheBytes
    guardPc,    \* goroutine -> its position in add or get
    guardArg,   \* goroutine -> the call it is making (op, key, value)
    guardRet,   \* goroutine -> what its call returned, and (history) whether
                \* it took c.mu before any add did
    guardHist   \* history: calls made, adds that have taken c.mu, how
                \* often lru.New ran and for which add, the value last
                \* added per key

lruVars == <<lru, lastOp, touch, clock, scn>>
httpVars == <<httpReq, httpResp>>
grpVars == <<mainCache, gPc, gKey, gRet, gLoad, gCount>>
sfVars == <<sfMu, sfMNil, sfM, sfCalls, sfPc, sfKey, sfC, sfRet, sfSaw, sfStarted>>
poolVars ==
    <<ringHash, poolMu, poolPeers, poolGetters, poolPc, poolArg, poolRet,
      poolSaw, poolHist>>
viewVars == <<viewHeap, viewEntry, viewBufs, viewLast, viewBuilt>>
guardVars == <<guardMu, guardC, guardPc, guardArg, guardRet, guardHist>>

Nil == "nil"

(***************************************************************************)
(* Bounds of the model.                                                    *)
(***************************************************************************)
MaxOps == 5
\* Do calls made in one run of the dedup group
MaxDo == 3

\* keys and values of the LRU store; a value is a ByteView, a byte sequence
LruKeys == {"a", "b", "c", "dd"}
LruValues == {<<>>, <<7>>, <<7, 8>>}
\* capacities the store is created with (0: unbounded)
MaxBytesChoices == {0, 2, 3}

\* Get calls made in one run of the Group
MaxGets == 4

\* longest request path after the base path
MaxPathLen == 4

\* goroutines and keys of the dedup group, and what fn may return
SFProcs == {"g1", "g2", "g3"}
SFKeys == {"k1", "k2"}
FnResults == {[val |-> "v1", err |-> Nil], [val |-> Nil, err |-> "boom"]}

\* the characters of a request path, the registered group names, and the
\* values a Group may hold
PathChars == {"g", "h", "k", "/"}
GroupNames == {<<"g">>}
Values == {<<>>, <<7>>, <<7, 8>>}

\* goroutines and keys of the Group, and the capacity of its cache
GProcs == {"g1", "g2"}
GKeys == {"", "k"}
GCacheBytes == 2

\* buffers handed out by ByteSlice in one run, and the bytes callers write
MaxCopies == 2
WrittenBytes == {0, 9}

\* add and get calls made in one run of the cache guard, its goroutines,
\* the keys and values they use, and the capacities it is configured with
MaxGuardCalls == 3
GuardProcs == {"t1", "t2", "t3"}
GuardKeys == {"a", "b"}
GuardValues == {<<7>>, <<7, 8>>}
GuardBytes == {0, 3}

\* Set and PickPeer calls made in one run of the pool
MaxPoolCalls == 3
\* virtual nodes per peer (defaultReplicas is 50)
Replicas == 1
\* the values the ring's hash function takes
HashValues == {0, 1, 2}

\* the peer addresses, the address of this node, the keys picked for, and
\* the goroutines calling Set and PickPeer
PoolPeerIds == {<<"A">>, <<"B">>, <<"C">>}
PoolSelf == <<"A">>
PoolKeys == {<<"x">>, <<"y">>}
PoolProcs == {"t1", "t2"}
RingProcs == {"t1"}

Min(S) == CHOOSE x \in S : \A y \in S : x <= y

(***************************************************************************)
(* package lru                                                             *)
(*                                                                         *)
(* ll is the container/list, front first; an element carries the identity  *)
(* of its list.Element and its *entry.  cache maps a key to the identity   *)
(* of its element.  evicted is what the OnEvicted callback has been called *)
(* with, in order (empty when no callback is registered).                  *)
(***************************************************************************)
New(maxBytes, onEvicted) ==
    [maxBytes |-> maxBytes, nbytes |-> 0, ll |-> <<>>, cache |-> <<>>,
     OnEvicted |-> onEvicted, evicted |-> <<>>]

\* the position in ll of the element with identity id
PosOf(ll, id) == CHOOSE i \in 1..Len(ll) : ll[i].id = id

\* a new list.Element: an identity no element of the list has
NewElement(ll) ==
    Min({i \in 1..(Len(ll) + 1) : \A j \in 1..Len(ll) : ll[j].id # i})

\* list.MoveToFront(ele)
MoveToFront(ll, id) ==
    LET p == PosOf(ll, id)
    IN  <<ll[p]>> \o SubSeq(ll, 1, p - 1) \o SubSeq(ll, p + 1, Len(ll))

\* list.Remove(ele)
ListRemove(ll, id) ==
    LET p == PosOf(ll, id)
    IN  SubSeq(ll, 1, p - 1) \o SubSeq(ll, p + 1, Len(ll))

\* delete(c.cache, key)
MapDelete(m, key) == [k \in (DOMAIN m) \ {key} |-> m[k]]

\* a plausible slip: the victim is taken from the front of the list
RemoveNewest(c) ==
    IF c.ll = <<>> THEN c
    ELSE LET ele == c.ll[1]
         IN  [c EXCEPT !.ll = ListRemove(c.ll, ele.id),
                       !.cache = MapDelete(c.cache, ele.key),
                       !.nbytes = c.nbytes - (Len(ele.key) + Len(ele.value)),
                       !.evicted = IF c.OnEvicted
                                   THEN Append(c.evicted, <<ele.key, ele.value>>)
                                   ELSE c.evicted]

RemoveOldest(c) ==
    IF c.ll = <<>> THEN c
    ELSE LET ele == c.ll[Len(c.ll)]
         IN  [c EXCEPT !.ll = ListRemove(c.ll, ele.id),
                       !.cache = MapDelete(c.cache, ele.key),
                       !.nbytes = c.nbytes - (Len(ele.key) + Len(ele.value)),
                       !.evicted = IF c.OnEvicted
                                   THEN Append(c.evicted, <<ele.key, ele.value>>)
                                   ELSE c.evicted]

\* a plausible slip: the over-capacity test is an `if', not a `for'
EvictOnce(c) ==
    IF c.maxBytes # 0 /\ c.maxBytes < c.nbytes THEN RemoveOldest(c) ELSE c

\* a plausible slip: the loop stops at the last entry
RECURSIVE EvictLoopKeepOne(_)
EvictLoopKeepOne(c) ==
    IF c.maxBytes # 0 /\ c.maxBytes < c.nbytes /\ Len(c.ll) > 1
    THEN EvictLoopKeepOne(RemoveOldest(c))
    ELSE c

\* for c.maxBytes != 0 && c.maxBytes < c.nbytes { c.RemoveOldest() }
RECURSIVE EvictLoop(_)
EvictLoop(c) ==
    IF c.maxBytes # 0 /\ c.maxBytes < c.nbytes
    THEN EvictLoop(RemoveOldest(c))
    ELSE c

\* a plausible slip: on an existing key the old value's length is not
\* subtracted
AddEntryNoDelta(c, key, value) ==
    IF key \in DOMAIN c.cache
    THEN LET id == c.cache[key]
             ll1 == MoveToFront(c.ll, id)
             kv == ll1[1]
         IN  [c EXCEPT !.ll = <<[kv EXCEPT !.value = value]>> \o Tail(ll1),
                       !.nbytes = c.nbytes + Len(value)]
    ELSE LET id == NewElement(c.ll)
         IN  [c EXCEPT !.ll = <<[id |-> id, key |-> key, value |-> value]>> \o c.ll,
                       !.cache = (key :> id) @@ c.cache,
                       !.nbytes = c.nbytes + Len(key) + Len(value)]

\* a plausible slip: on an existing key the stored value is not replaced
AddEntryKeepValue(c, key, value) ==
    IF key \in DOMAIN c.cache
    THEN LET id == c.cache[key]
             ll1 == MoveToFront(c.ll, id)
             kv == ll1[1]
         IN  [c EXCEPT !.ll = ll1,
                       !.nbytes = c.nbytes + Len(value) - Len(kv.value)]
    ELSE LET id == NewElement(c.ll)
         IN  [c EXCEPT !.ll = <<[id |-> id, key |-> key, value |-> value]>> \o c.ll,
                       !.cache = (key :> id) @@ c.cache,
                       !.nbytes = c.nbytes + Len(key) + Len(value)]

\* the two branches of Add, before the eviction loop
AddEntry(c, key, value) ==
    IF key \in DOMAIN c.cache
    THEN LET id == c.cache[key]
             ll1 == MoveToFront(c.ll, id)
             kv == ll1[1]
         IN  [c EXCEPT !.ll = <<[kv EXCEPT !.value = value]>> \o Tail(ll1),
                       !.nbytes = c.nbytes + Len(value) - Len(kv.value)]
    ELSE LET id == NewElement(c.ll)
         IN  [c EXCEPT !.ll = <<[id |-> id, key |-> key, value |-> value]>> \o c.ll,
                       !.cache = (key :> id) @@ c.cache,
                       !.nbytes = c.nbytes + Len(key) + Len(value)]

Add(c, key, value) == EvictLoop(AddEntry(c, key, value))

\* a plausible slip: Get finds the entry but does not promote it
GetNoPromote(c, key) ==
    IF key \in DOMAIN c.cache
    THEN [c |-> c, value |-> c.ll[PosOf(c.ll, c.cache[key])].value, ok |-> TRUE]
    ELSE [c |-> c, value |-> <<>>, ok |-> FALSE]

\* Get returns the cache after the call, the value and ok
Get(c, key) ==
    IF key \in DOMAIN c.cache
    THEN LET ll1 == MoveToFront(c.ll, c.cache[key])
         IN  [c |-> [c EXCEPT !.ll = ll1], value |-> ll1[1].value, ok |-> TRUE]
    ELSE [c |-> c, value |-> <<>>, ok |-> FALSE]

LruLen(c) == Len(c.ll)

(***************************************************************************)
(* The store under test: what a harness calling Add, Get and RemoveOldest  *)
(* observes, with the OnEvicted callback recording its calls.              *)
(***************************************************************************)
\* the keys of the list, front (most recently used) first
KeysOf(c) == [i \in 1..Len(c.ll) |-> c.ll[i].key]
Live(c) == {c.ll[i].key : i \in 1..Len(c.ll)}

\* the callback's record starts empty at each operation
Fresh(c) == [c EXCEPT !.evicted = <<>>]

\* progress through the run Add(a), Add(b), Add(c) of one-byte entries on a
\* store of two bytes: n after its first n steps, -1 once the run has left it
ScnNext(s, op, key, value) ==
    IF s >= 0 /\ s < 3 /\ op = "Add" /\ value = <<>>
       /\ key = <<"a", "b", "c">>[s + 1]
    THEN s + 1
    ELSE -1

StartLRU ==
    /\ \E mb \in MaxBytesChoices : lru = New(mb, TRUE)
    /\ lastOp = [op |-> "New", key |-> Nil, value |-> <<>>, ok |-> FALSE, had |-> FALSE]
    /\ touch = [k \in LruKeys |-> 0]
    /\ clock = 0
    /\ scn = 0

LruAdd(key, value) ==
    /\ clock < MaxOps
    /\ lru' = Add(Fresh(lru), key, value)
    /\ lastOp' = [op |-> "Add", key |-> key, value |-> value, ok |-> TRUE,
                   had |-> key \in Live(lru)]
    /\ clock' = clock + 1
    /\ touch' = [touch EXCEPT ![key] = clock + 1]
    /\ scn' = ScnNext(scn, "Add", key, value)

LruGet(key) ==
    LET r == Get(Fresh(lru), key)
    IN  /\ clock < MaxOps
        /\ lru' = r.c
        /\ lastOp' = [op |-> "Get", key |-> key, value |-> r.value, ok |-> r.ok,
                       had |-> key \in Live(lru)]
        /\ clock' = clock + 1
        /\ touch' = IF r.ok THEN [touch EXCEPT ![key] = clock + 1] ELSE touch
        /\ scn' = -1

LruRemoveOldest ==
    /\ clock < MaxOps
    /\ lru' = RemoveOldest(Fresh(lru))
    /\ lastOp' = [op |-> "RemoveOldest", key |-> Nil, value |-> <<>>, ok |-> FALSE,
                   had |-> FALSE]
    /\ clock' = clock + 1
    /\ touch' = touch
    /\ scn' = -1



(***************************************************************************)
(* package singleflight                                                    *)
(*                                                                         *)
(* Do, one step per statement that another goroutine can observe.          *)
(*   lock   at g.mu.Lock() (line 22)                                       *)
(*   check  holding g.mu, at the lookup of g.m[key] (lines 24-38)          *)
(*   wait   at c.wg.Wait() (line 31)                                       *)
(*   fn     in fn(), until it returns into c.val, c.err (line 41)          *)
(*   done   at c.wg.Done() (line 43)                                       *)
(*   lock2  at the second g.mu.Lock() (line 46)                            *)
(*   delete holding g.mu, at delete(g.m, key) (lines 47-51)                *)
(* A call object keeps, as history, its key, the goroutine that made it,   *)
(* how often fn ran for it and whether fn has returned.                    *)
(***************************************************************************)
\* what a goroutine has when its Do has not returned
NotReturned == [val |-> "none", err |-> "none"]

NewCall(key, p) ==
    [wg |-> 1, val |-> Nil, err |-> Nil,
     key |-> key, owner |-> p, execs |-> 0, returned |-> FALSE]

\* the calls for key whose fn has not yet returned
InFlight(key) ==
    {c \in 1..Len(sfCalls) : sfCalls[c].key = key /\ ~sfCalls[c].returned}

\* the calls for key whose fn has returned
Finished(key) ==
    {c \in 1..Len(sfCalls) : sfCalls[c].key = key /\ sfCalls[c].returned}

SawNothing == [inflight |-> {}, signalled |-> FALSE, finished |-> {}]
Seen(key) ==
    [inflight |-> InFlight(key),
     signalled |-> key \in DOMAIN sfM /\ sfCalls[sfM[key]].wg = 0,
     finished |-> {}]

\* Do is called: the goroutine is about to take g.mu
DoCall(p, key) ==
    /\ sfPc[p] = "idle"
    /\ sfStarted < MaxDo
    /\ sfPc' = [sfPc EXCEPT ![p] = "lock"]
    /\ sfKey' = [sfKey EXCEPT ![p] = key]
    /\ sfC' = [sfC EXCEPT ![p] = 0]
    /\ sfRet' = [sfRet EXCEPT ![p] = NotReturned]
    /\ sfSaw' = [sfSaw EXCEPT ![p] = [SawNothing EXCEPT !.finished = Finished(key)]]
    /\ sfStarted' = sfStarted + 1
    /\ UNCHANGED <<sfMu, sfMNil, sfM, sfCalls>>

\* g.mu.Lock(); if g.m == nil { g.m = make(map[string]*call) }
DoLock(p) ==
    /\ sfPc[p] = "lock"
    /\ sfMu = Nil
    /\ sfMu' = p
    /\ sfMNil' = FALSE
    /\ UNCHANGED sfM
    /\ sfPc' = [sfPc EXCEPT ![p] = "check"]
    /\ UNCHANGED <<sfCalls, sfKey, sfC, sfRet, sfSaw, sfStarted>>

\* a plausible slip: the lookup of g.m[key] is missing, every caller
\* registers a call of its own
DoCheckNoLookup(p) ==
    /\ sfPc[p] = "check"
    /\ sfMu = p
    /\ sfSaw' = [sfSaw EXCEPT ![p] =
                    [Seen(sfKey[p]) EXCEPT !.finished = sfSaw[p].finished]]
    /\ sfMu' = Nil
    /\ sfCalls' = Append(sfCalls, NewCall(sfKey[p], p))
    /\ sfC' = [sfC EXCEPT ![p] = Len(sfCalls) + 1]
    /\ sfM' = (sfKey[p] :> (Len(sfCalls) + 1)) @@ sfM
    /\ sfPc' = [sfPc EXCEPT ![p] = "fn"]
    /\ UNCHANGED <<sfMNil, sfKey, sfRet, sfStarted>>

\* a plausible slip: the caller that registers keeps g.mu while fn runs
DoCheckHoldLock(p) ==
    /\ sfPc[p] = "check"
    /\ sfMu = p
    /\ sfSaw' = [sfSaw EXCEPT ![p] =
                    [Seen(sfKey[p]) EXCEPT !.finished = sfSaw[p].finished]]
    /\ IF sfKey[p] \in DOMAIN sfM
       THEN /\ sfC' = [sfC EXCEPT ![p] = sfM[sfKey[p]]]
            /\ sfPc' = [sfPc EXCEPT ![p] = "wait"]
            /\ sfMu' = Nil
            /\ UNCHANGED <<sfM, sfCalls>>
       ELSE /\ sfCalls' = Append(sfCalls, NewCall(sfKey[p], p))
            /\ sfC' = [sfC EXCEPT ![p] = Len(sfCalls) + 1]
            /\ sfM' = (sfKey[p] :> (Len(sfCalls) + 1)) @@ sfM
            /\ sfPc' = [sfPc EXCEPT ![p] = "fn"]
            /\ sfMu' = sfMu
    /\ UNCHANGED <<sfMNil, sfKey, sfRet, sfStarted>>

\* if c, ok := g.m[key]; ok { g.mu.Unlock(); ... }
\* c := new(call); c.wg.Add(1); g.m[key] = c; g.mu.Unlock()
DoCheck(p) ==
    /\ sfPc[p] = "check"
    /\ sfMu = p
    /\ sfSaw' = [sfSaw EXCEPT ![p] =
                    [Seen(sfKey[p]) EXCEPT !.finished = sfSaw[p].finished]]
    /\ sfMu' = Nil
    /\ IF sfKey[p] \in DOMAIN sfM
       THEN /\ sfC' = [sfC EXCEPT ![p] = sfM[sfKey[p]]]
            /\ sfPc' = [sfPc EXCEPT ![p] = "wait"]
            /\ UNCHANGED <<sfM, sfCalls>>
       ELSE /\ sfCalls' = Append(sfCalls, NewCall(sfKey[p], p))
            /\ sfC' = [sfC EXCEPT ![p] = Len(sfCalls) + 1]
            /\ sfM' = (sfKey[p] :> (Len(sfCalls) + 1)) @@ sfM
            /\ sfPc' = [sfPc EXCEPT ![p] = "fn"]
    /\ UNCHANGED <<sfMNil, sfKey, sfRet, sfStarted>>

\* a plausible slip: the waiter does not wait, it reads c.val, c.err at once
DoWaitNoWait(p) ==
    /\ sfPc[p] = "wait"
    /\ sfRet' = [sfRet EXCEPT ![p] =
                    [val |-> sfCalls[sfC[p]].val, err |-> sfCalls[sfC[p]].err]]
    /\ sfPc' = [sfPc EXCEPT ![p] = "idle"]
    /\ UNCHANGED <<sfMu, sfMNil, sfM, sfCalls, sfKey, sfC, sfSaw, sfStarted>>

\* c.wg.Wait(); return c.val, c.err
DoWait(p) ==
    /\ sfPc[p] = "wait"
    /\ sfCalls[sfC[p]].wg = 0
    /\ sfRet' = [sfRet EXCEPT ![p] =
                    [val |-> sfCalls[sfC[p]].val, err |-> sfCalls[sfC[p]].err]]
    /\ sfPc' = [sfPc EXCEPT ![p] = "idle"]
    /\ UNCHANGED <<sfMu, sfMNil, sfM, sfCalls, sfKey, sfC, sfSaw, sfStarted>>

\* a plausible slip: fn's error is dropped (c.val, _ = fn())
DoFnDropErr(p, res) ==
    /\ sfPc[p] = "fn"
    /\ sfCalls' = [sfCalls EXCEPT ![sfC[p]] =
                      [@ EXCEPT !.val = res.val,
                                !.execs = @ + 1, !.returned = TRUE]]
    /\ sfPc' = [sfPc EXCEPT ![p] = "done"]
    /\ UNCHANGED <<sfMu, sfMNil, sfM, sfKey, sfC, sfRet, sfSaw, sfStarted>>

\* c.val, c.err = fn(): fn returns res
DoFn(p, res) ==
    /\ sfPc[p] = "fn"
    /\ sfCalls' = [sfCalls EXCEPT ![sfC[p]] =
                      [@ EXCEPT !.val = res.val, !.err = res.err,
                                !.execs = @ + 1, !.returned = TRUE]]
    /\ sfPc' = [sfPc EXCEPT ![p] = "done"]
    /\ UNCHANGED <<sfMu, sfMNil, sfM, sfKey, sfC, sfRet, sfSaw, sfStarted>>

\* a plausible slip: c.wg.Done() is missing
DoDoneNoSignal(p) ==
    /\ sfPc[p] = "done"
    /\ sfPc' = [sfPc EXCEPT ![p] = "lock2"]
    /\ UNCHANGED <<sfMu, sfMNil, sfM, sfCalls, sfKey, sfC, sfRet, sfSaw, sfStarted>>

\* c.wg.Done()
DoDone(p) ==
    /\ sfPc[p] = "done"
    /\ sfCalls' = [sfCalls EXCEPT ![sfC[p]] = [@ EXCEPT !.wg = @ - 1]]
    /\ sfPc' = [sfPc EXCEPT ![p] = "lock2"]
    /\ UNCHANGED <<sfMu, sfMNil, sfM, sfKey, sfC, sfRet, sfSaw, sfStarted>>

\* g.mu.Lock()
DoLock2(p) ==
    /\ sfPc[p] = "lock2"
    /\ sfMu = Nil
    /\ sfMu' = p
    /\ sfPc' = [sfPc EXCEPT ![p] = "delete"]
    /\ UNCHANGED <<sfMNil, sfM, sfCalls, sfKey, sfC, sfRet, sfSaw, sfStarted>>

\* a plausible slip: the finished call stays in the map
DoDeleteKeep(p) ==
    /\ sfPc[p] = "delete"
    /\ sfMu = p
    /\ sfMu' = Nil
    /\ sfRet' = [sfRet EXCEPT ![p] =
                    [val |-> sfCalls[sfC[p]].val, err |-> sfCalls[sfC[p]].err]]
    /\ sfPc' = [sfPc EXCEPT ![p] = "idle"]
    /\ UNCHANGED <<sfMNil, sfM, sfCalls, sfKey, sfC, sfSaw, sfStarted>>

\* delete(g.m, key); g.mu.Unlock(); return c.val, c.err
DoDelete(p) ==
    /\ sfPc[p] = "delete"
    /\ sfMu = p
    /\ sfM' = MapDelete(sfM, sfKey[p])
    /\ sfMu' = Nil
    /\ sfRet' = [sfRet EXCEPT ![p] =
                    [val |-> sfCalls[sfC[p]].val, err |-> sfCalls[sfC[p]].err]]
    /\ sfPc' = [sfPc EXCEPT ![p] = "idle"]
    /\ UNCHANGED <<sfMNil, sfCalls, sfKey, sfC, sfSaw, sfStarted>>

\* the Group as declared (its zero value), with no Do call made yet
StartSF(procs) ==
    /\ sfMu = Nil
    /\ sfMNil = TRUE
    /\ sfM = <<>>
    /\ sfCalls = <<>>
    /\ sfPc = [p \in procs |-> "idle"]
    /\ sfKey = [p \in procs |-> Nil]
    /\ sfC = [p \in procs |-> 0]
    /\ sfRet = [p \in procs |-> NotReturned]
    /\ sfSaw = [p \in procs |-> SawNothing]
    /\ sfStarted = 0

(***************************************************************************)
(* ByteView (the value container)                                          *)
(*                                                                         *)
(* A ByteView is represented by its only field b, a sequence of bytes.     *)
(***************************************************************************)
\* c := make([]byte, len(b)); copy(c, b)
cloneBytes(b) == [i \in 1..Len(b) |-> b[i]]

ByteSlice(v) == cloneBytes(v)

(***************************************************************************)
(* The peer protocol's payload: pb.Response{Value: bytes}, field 1 of wire *)
(* type 2; an empty value is not written at all.                           *)
(***************************************************************************)
Marshal(value) ==
    IF value = <<>> THEN <<>> ELSE <<10, Len(value)>> \o value

\* the decoded value and whether decoding succeeded
Unmarshal(body) ==
    IF body = <<>> THEN [value |-> <<>>, ok |-> TRUE]
    ELSE IF Len(body) >= 2 /\ body[1] = 10 /\ body[2] = Len(body) - 2
         THEN [value |-> SubSeq(body, 3, Len(body)), ok |-> TRUE]
         ELSE [value |-> <<>>, ok |-> FALSE]

(***************************************************************************)
(* HTTPPool.ServeHTTP                                                      *)
(*                                                                         *)
(* A path is a sequence of characters.  The response writer records the    *)
(* status, the content type, the error text or the binary body, and, as    *)
(* history, the GetGroup and Group.Get calls the handler made.             *)
(***************************************************************************)
defaultBasePath == <<"/", "_", "r", "q", "c", "a", "c", "h", "e", "/">>

StatusOK == 200
StatusBadRequest == 400
StatusNotFound == 404
StatusInternalServerError == 500

HasPrefix(s, prefix) ==
    Len(s) >= Len(prefix) /\ SubSeq(s, 1, Len(prefix)) = prefix

\* the positions of sep in s
Index(s, sep) == {i \in 1..Len(s) : s[i] = sep}

\* a plausible slip: strings.Split, which cuts at every separator
RECURSIVE SplitAll(_, _, _)
SplitAll(s, sep, n) ==
    IF Index(s, sep) = {} THEN <<s>>
    ELSE LET i == Min(Index(s, sep))
         IN  <<SubSeq(s, 1, i - 1)>> \o SplitAll(SubSeq(s, i + 1, Len(s)), sep, n)

\* strings.SplitN(s, sep, n) for n > 0: at most n substrings, the last one
\* the unsplit remainder
RECURSIVE SplitN(_, _, _)
SplitN(s, sep, n) ==
    IF n = 1 \/ Index(s, sep) = {} THEN <<s>>
    ELSE LET i == Min(Index(s, sep))
         IN  <<SubSeq(s, 1, i - 1)>> \o SplitN(SubSeq(s, i + 1, Len(s)), sep, n - 1)

NoResponse ==
    [panic |-> FALSE, status |-> 0, contentType |-> "", text |-> <<>>,
     body |-> <<>>, groups |-> <<>>, gets |-> <<>>]

\* http.Error(w, msg, code)
httpError(w, msg, code) ==
    [w EXCEPT !.status = code, !.contentType = "text/plain; charset=utf-8",
              !.text = msg]

\* GetGroup(name): the registry of groups made at configuration time
GetGroup(name) == name \in GroupNames

\* Group.Get as the handler sees it: an empty key is refused, any other key
\* gets the answer the lookup produces
KeyRequired == [value |-> <<>>, err |-> "key is required"]
GroupGet(key, answer) == IF key = <<>> THEN KeyRequired ELSE answer

\* a plausible slip: the retrieval error is written without its status
ServeGetNoStatus(w, key, answer, marshalErr) ==
    LET r == GroupGet(key, answer)
        w1 == [w EXCEPT !.gets = Append(@, [key |-> key, result |-> r])]
    IN  IF r.err # Nil
        THEN [w1 EXCEPT !.status = StatusOK, !.text = <<r.err>>]
        ELSE IF marshalErr # Nil
             THEN httpError(w1, <<marshalErr>>, StatusInternalServerError)
             ELSE [w1 EXCEPT !.status = StatusOK,
                             !.contentType = "application/octet-stream",
                             !.body = Marshal(ByteSlice(r.value))]

\* lines 67-81: group.Get, proto.Marshal, and the response
ServeGet(w, key, answer, marshalErr) ==
    LET r == GroupGet(key, answer)
        w1 == [w EXCEPT !.gets = Append(@, [key |-> key, result |-> r])]
    IN  IF r.err # Nil
        THEN httpError(w1, <<r.err>>, StatusInternalServerError)
        ELSE IF marshalErr # Nil
             THEN httpError(w1, <<marshalErr>>, StatusInternalServerError)
             ELSE [w1 EXCEPT !.status = StatusOK,
                             !.contentType = "application/octet-stream",
                             !.body = Marshal(ByteSlice(r.value))]

ServeHTTP(path, answer, marshalErr) ==
    IF ~HasPrefix(path, defaultBasePath)
    THEN [NoResponse EXCEPT !.panic = TRUE]
    ELSE LET parts == SplitN(SubSeq(path, Len(defaultBasePath) + 1, Len(path)),
                             "/", 2)
         IN  IF Len(parts) # 2
             THEN httpError(NoResponse, <<"bad request">>, StatusBadRequest)
             ELSE LET groupName == parts[1]
                      key == parts[2]
                      w1 == [NoResponse EXCEPT !.groups = Append(@, groupName)]
                  IN  IF ~GetGroup(groupName)
                      THEN httpError(w1, <<"no such group: ">> \o groupName,
                                     StatusNotFound)
                      ELSE ServeGet(w1, key, answer, marshalErr)

\* the paths sent to the handler: the base path followed by up to MaxPathLen
\* characters, and some paths outside the base path
RECURSIVE SeqsUpTo(_, _)
SeqsUpTo(S, n) ==
    IF n = 0 THEN {<<>>}
    ELSE LET shorter == SeqsUpTo(S, n - 1)
         IN  shorter \cup {Append(t, x) : t \in shorter, x \in S}

Remainders == SeqsUpTo(PathChars, MaxPathLen)
OtherPaths == {<<>>, <<"/">>, <<"/", "g", "/", "k">>, SubSeq(defaultBasePath, 1, 9)}
Answers ==
    {[value |-> v, err |-> Nil] : v \in Values}
        \cup {[value |-> <<>>, err |-> "load failed"]}
MarshalErrs == {Nil, "marshal failed"}

\* no request is being served
NoRequest ==
    [phase |-> "idle", path |-> <<>>, answer |-> KeyRequired, marshalErr |-> Nil]

StartHTTP ==
    /\ httpReq = NoRequest
    /\ httpResp = NoResponse

\* the server hands a request to the handler
Receive(path, answer, marshalErr) ==
    /\ httpReq.phase = "idle"
    /\ httpReq' = [phase |-> "serving", path |-> path, answer |-> answer,
                   marshalErr |-> marshalErr]
    /\ httpResp' = NoResponse

\* the handler runs and returns
Serve ==
    /\ httpReq.phase = "serving"
    /\ httpReq' = [httpReq EXCEPT !.phase = "done"]
    /\ httpResp' = ServeHTTP(httpReq.path, httpReq.answer, httpReq.marshalErr)

\* the server sends the response and is ready for the next request
Reply ==
    /\ httpReq.phase = "done"
    /\ httpReq' = NoRequest
    /\ httpResp' = NoResponse

(***************************************************************************)
(* cache: the guard around the LRU store (cache.go).  add and get hold     *)
(* c.mu from entry to return, so each is one step.                         *)
(***************************************************************************)
add(c, key, value) ==
    LET l == IF c.lru = <<>> THEN New(c.cacheBytes, FALSE) ELSE c.lru[1]
    IN  [c EXCEPT !.lru = <<Add(l, key, value)>>]

\* a plausible slip: the value is assigned but ok stays false
getNotOk(c, key) ==
    IF c.lru = <<>> THEN [c |-> c, value |-> <<>>, ok |-> FALSE]
    ELSE LET r == Get(c.lru[1], key)
         IN  [c |-> [c EXCEPT !.lru = <<r.c>>], value |-> r.value, ok |-> FALSE]

\* get returns the cache after the call, the value and ok
get(c, key) ==
    IF c.lru = <<>> THEN [c |-> c, value |-> <<>>, ok |-> FALSE]
    ELSE LET r == Get(c.lru[1], key)
         IN  IF r.ok
             THEN [c |-> [c EXCEPT !.lru = <<r.c>>], value |-> r.value, ok |-> TRUE]
             ELSE [c |-> c, value |-> <<>>, ok |-> FALSE]

(***************************************************************************)
(* httpGetter.Get: the peer protocol's client.  What the network does is   *)
(* an input: the transport error of http.Get, or a response with a status, *)
(* a body and the error of reading it.  label names the case for the       *)
(* reader of a trace; Get does not see it.                                 *)
(***************************************************************************)
NetOutcomes ==
    {[label |-> "unreachable", connErr |-> "connection refused", status |-> 0,
      readErr |-> Nil, body |-> <<>>],
     [label |-> "status", connErr |-> Nil, status |-> StatusInternalServerError,
      readErr |-> Nil, body |-> <<10, 1, 7>>],
     [label |-> "read", connErr |-> Nil, status |-> StatusOK,
      readErr |-> "unexpected EOF", body |-> <<10, 1>>],
     [label |-> "decode", connErr |-> Nil, status |-> StatusOK,
      readErr |-> Nil, body |-> <<10, 2, 7>>],
     [label |-> "ok", connErr |-> Nil, status |-> StatusOK,
      readErr |-> Nil, body |-> <<10, 1, 9>>]}

\* a plausible slip: the status of the response is not looked at
httpGetterGetAnyStatus(res) ==
    IF res.connErr # Nil THEN [err |-> res.connErr, value |-> <<>>]
    ELSE IF res.readErr # Nil THEN [err |-> "reading response body", value |-> <<>>]
    ELSE IF ~Unmarshal(res.body).ok
         THEN [err |-> "decoding response body", value |-> <<>>]
         ELSE [err |-> Nil, value |-> Unmarshal(res.body).value]

\* Get returns its error and, in out, the decoded value
httpGetterGet(res) ==
    IF res.connErr # Nil THEN [err |-> res.connErr, value |-> <<>>]
    ELSE IF res.status # StatusOK THEN [err |-> "server returned", value |-> <<>>]
    ELSE IF res.readErr # Nil THEN [err |-> "reading response body", value |-> <<>>]
    ELSE IF ~Unmarshal(res.body).ok
         THEN [err |-> "decoding response body", value |-> <<>>]
         ELSE [err |-> Nil, value |-> Unmarshal(res.body).value]

(***************************************************************************)
(* Group.Get (the orchestrator), one step per call it makes.               *)
(*   get    Get was called; next the empty-key test and mainCache.get      *)
(*   do     inside loader.Do(key, load); sfPc has the position in Do       *)
(*   fetch  in load, a remote peer was picked; next the peer's Get         *)
(*   local  in load, next the local data loader                            *)
(* The load function ends by returning into Do (DoFn).                     *)
(***************************************************************************)
NoResult == [value |-> <<>>, err |-> "none"]
NoLoad ==
    [hit |-> FALSE, picked |-> FALSE, net |-> "none", fetchErr |-> Nil,
     fetches |-> 0, loads |-> 0, loadErr |-> Nil, loaded |-> <<>>, stores |-> 0]

\* what the local data loader may answer
LoaderAnswers ==
    {[bytes |-> <<7>>, err |-> Nil], [bytes |-> <<8, 9>>, err |-> Nil],
     [bytes |-> <<>>, err |-> "not found"]}

StartGroup ==
    /\ mainCache = [lru |-> <<>>, cacheBytes |-> GCacheBytes]
    /\ gPc = [p \in GProcs |-> "idle"]
    /\ gKey = [p \in GProcs |-> ""]
    /\ gRet = [p \in GProcs |-> NoResult]
    /\ gLoad = [p \in GProcs |-> NoLoad]
    /\ gCount = [gets |-> 0,
                 loads |-> [k \in GKeys |-> 0],
                 fetches |-> [k \in GKeys |-> 0],
                 stored |-> [k \in GKeys |-> <<>>]]

GetCall(p, key) ==
    /\ gPc[p] = "idle"
    /\ gCount.gets < MaxGets
    /\ gPc' = [gPc EXCEPT ![p] = "get"]
    /\ gKey' = [gKey EXCEPT ![p] = key]
    /\ gRet' = [gRet EXCEPT ![p] = NoResult]
    /\ gLoad' = [gLoad EXCEPT ![p] = NoLoad]
    /\ gCount' = [gCount EXCEPT !.gets = @ + 1]
    /\ UNCHANGED mainCache

\* if key == "" { return ByteView{}, error }
GetEmptyKey(p) ==
    /\ gPc[p] = "get"
    /\ gKey[p] = ""
    /\ gRet' = [gRet EXCEPT ![p] = KeyRequired]
    /\ gPc' = [gPc EXCEPT ![p] = "idle"]
    /\ UNCHANGED <<mainCache, gKey, gLoad, gCount>>

\* if v, ok := g.mainCache.get(key); ok { return v, nil }
GetHit(p) ==
    LET r == get(mainCache, gKey[p])
    IN  /\ gPc[p] = "get"
        /\ gKey[p] # ""
        /\ r.ok
        /\ mainCache' = r.c
        /\ gRet' = [gRet EXCEPT ![p] = [value |-> r.value, err |-> Nil]]
        /\ gLoad' = [gLoad EXCEPT ![p].hit = TRUE]
        /\ gPc' = [gPc EXCEPT ![p] = "idle"]
        /\ UNCHANGED <<gKey, gCount>>

\* the lookup misses: return g.load(key), which calls g.loader.Do
GetMiss(p) ==
    LET r == get(mainCache, gKey[p])
    IN  /\ gPc[p] = "get"
        /\ gKey[p] # ""
        /\ ~r.ok
        /\ mainCache' = r.c
        /\ gPc' = [gPc EXCEPT ![p] = "do"]
        /\ UNCHANGED <<gKey, gRet, gLoad, gCount>>

InLoad(p) == gPc[p] = "do" /\ sfPc[p] = "fn"

\* load: the peer-selection strategy answers (peer, true) or (nil, false)
LoadPick(p, remote) ==
    /\ InLoad(p)
    /\ gPc' = [gPc EXCEPT ![p] = IF remote THEN "fetch" ELSE "local"]
    /\ gLoad' = [gLoad EXCEPT ![p].picked = remote]
    /\ UNCHANGED <<mainCache, gKey, gRet, gCount>>

\* load: the fetch from the peer fails; fall through to the local loader
LoadFetchFail(p, res) ==
    /\ gPc[p] = "fetch"
    /\ httpGetterGet(res).err # Nil
    /\ gPc' = [gPc EXCEPT ![p] = "local"]
    /\ gLoad' = [gLoad EXCEPT ![p].net = res.label,
                              ![p].fetchErr = httpGetterGet(res).err,
                              ![p].fetches = @ + 1]
    /\ gCount' = [gCount EXCEPT !.fetches[gKey[p]] = @ + 1]
    /\ UNCHANGED <<mainCache, gKey, gRet>>

\* load: the fetch from the peer succeeds; wrap, store, return into Do
LoadFetchOk(p, res) ==
    /\ gPc[p] = "fetch"
    /\ httpGetterGet(res).err = Nil
    /\ mainCache' = add(mainCache, gKey[p], httpGetterGet(res).value)
    /\ gPc' = [gPc EXCEPT ![p] = "do"]
    /\ gLoad' = [gLoad EXCEPT ![p].net = res.label,
                              ![p].fetches = @ + 1,
                              ![p].stores = @ + 1]
    /\ gCount' = [gCount EXCEPT !.fetches[gKey[p]] = @ + 1,
                                !.stored[gKey[p]] = httpGetterGet(res).value]
    /\ UNCHANGED <<gKey, gRet>>

\* load: the local data loader fails; the error is returned into Do
LoadLocalFail(p, answer) ==
    /\ gPc[p] = "local"
    /\ answer.err # Nil
    /\ gPc' = [gPc EXCEPT ![p] = "do"]
    /\ gLoad' = [gLoad EXCEPT ![p].loads = @ + 1, ![p].loadErr = answer.err]
    /\ gCount' = [gCount EXCEPT !.loads[gKey[p]] = @ + 1]
    /\ UNCHANGED <<mainCache, gKey, gRet>>

\* load: the local data loader succeeds; wrap a copy, store, return into Do
LoadLocalOk(p, answer) ==
    /\ gPc[p] = "local"
    /\ answer.err = Nil
    /\ mainCache' = add(mainCache, gKey[p], cloneBytes(answer.bytes))
    /\ gPc' = [gPc EXCEPT ![p] = "do"]
    /\ gLoad' = [gLoad EXCEPT ![p].loads = @ + 1,
                              ![p].loaded = answer.bytes,
                              ![p].stores = @ + 1]
    /\ gCount' = [gCount EXCEPT !.loads[gKey[p]] = @ + 1,
                                !.stored[gKey[p]] = cloneBytes(answer.bytes)]
    /\ UNCHANGED <<gKey, gRet>>

\* Do returned (viewi, err): Get returns viewi.(ByteView), err
GetReturn(p, res) ==
    /\ gPc[p] = "do"
    /\ gRet' = [gRet EXCEPT ![p] = [value |-> res.val, err |-> res.err]]
    /\ gPc' = [gPc EXCEPT ![p] = "idle"]
    /\ UNCHANGED <<mainCache, gKey, gLoad, gCount>>

\* inside Do, outside load: Get's own variables stay as they are
InDo(p) == gPc[p] = "do" /\ UNCHANGED grpVars

(***************************************************************************)
(* consistenthash.Map (the hash ring).  A peer address and a key are       *)
(* sequences of characters; the empty sequence is the "no peer" answer.    *)
(* keys is the sorted sequence of the virtual nodes' hash values, hashMap  *)
(* maps a hash value back to its peer: of two virtual nodes with one hash  *)
(* value, the one inserted last has it.  The hash function is an input of  *)
(* the ring (ringHash).                                                    *)
(***************************************************************************)
Itoa(i) == <<(<<"0", "1", "2", "3", "4", "5", "6", "7", "8", "9">>)[i + 1]>>

\* the names the ring hashes: its virtual nodes and the keys looked up
VNodeNames == {Itoa(i) \o peer : i \in 0..(Replicas - 1), peer \in PoolPeerIds}
HashNames == VNodeNames \cup PoolKeys
HashFns == [HashNames -> HashValues]

\* two hash functions of the checksum kind
CharCode ==
    [c \in {"0", "1", "2", "3", "4", "5", "6", "7", "8", "9"} |-> 0]
        @@ ("A" :> 1) @@ ("B" :> 2) @@ ("C" :> 3) @@ ("x" :> 1) @@ ("y" :> 3)
RECURSIVE Checksum(_)
Checksum(name) ==
    IF name = <<>> THEN 0 ELSE CharCode[Head(name)] + Checksum(Tail(name))
SampleHashes ==
    {[n \in HashNames |-> Checksum(n) % Cardinality(HashValues)],
     [n \in HashNames |-> (2 * Checksum(n) + Len(n)) % Cardinality(HashValues)]}

RingNew(replicas) == [replicas |-> replicas, keys |-> <<>>, hashMap |-> <<>>]

\* sort.Ints
RECURSIVE SortInts(_)
SortInts(s) ==
    IF s = <<>> THEN <<>>
    ELSE LET m == Min({s[i] : i \in 1..Len(s)})
             p == Min({i \in 1..Len(s) : s[i] = m})
         IN  <<m>> \o SortInts(SubSeq(s, 1, p - 1) \o SubSeq(s, p + 1, Len(s)))

\* for i in [0, R): hash strconv(i) + peer, insert
RECURSIVE AddReplicas(_, _, _)
AddReplicas(m, peer, i) ==
    IF i >= m.replicas THEN m
    ELSE LET h == ringHash[Itoa(i) \o peer]
         IN  AddReplicas([m EXCEPT !.keys = Append(@, h),
                                   !.hashMap = (h :> peer) @@ @],
                         peer, i + 1)

RECURSIVE AddPeers(_, _)
AddPeers(m, peers) ==
    IF peers = <<>> THEN m
    ELSE AddPeers(AddReplicas(m, Head(peers), 0), Tail(peers))

\* add(peerIDs...): insert every virtual node, then sort once
RingAdd(m, peers) == [AddPeers(m, peers) EXCEPT !.keys = SortInts(@)]

\* get(key): the first hash value >= H(key), wrapping around to the first
RingGet(m, key) ==
    IF m.keys = <<>> THEN <<>>
    ELSE LET h == ringHash[key]
             at == {i \in 1..Len(m.keys) : m.keys[i] >= h}
             idx == IF at = {} THEN 1 ELSE Min(at)
         IN  m.hashMap[m.keys[idx]]

(***************************************************************************)
(* HTTPPool.Set and HTTPPool.PickPeer, one step per statement that another *)
(* goroutine can observe.                                                  *)
(*   setLock    at p.mu.Lock() in Set (line 86)                            *)
(*   setPeers   holding p.mu, at the ring's construction (lines 88-89)     *)
(*   setGetters holding p.mu, at the client map's construction (90-93)     *)
(*   setUnlock  at the deferred p.mu.Unlock() (line 87)                    *)
(*   pickLock   at p.mu.Lock() in PickPeer (line 98)                       *)
(*   pick       holding p.mu, at the lookup (lines 100-104) and the        *)
(*              deferred p.mu.Unlock() (line 99)                           *)
(*   pickRet    unlocked, the results on their way to the caller           *)
(* PickPeer is called once a first Set has returned: the pool is           *)
(* registered as the Group's peer picker after its peers are set.          *)
(***************************************************************************)
\* Set's arguments: lists of distinct peer addresses, with and without this
\* node, and for each list of two the lists that have one more peer before,
\* between or after its peers
PeerLists ==
    {<<>>, <<PoolSelf>>, <<<<"B">>>>, <<PoolSelf, <<"B">>>>, <<<<"B">>, PoolSelf>>,
     <<<<"B">>, <<"C">>>>, <<<<"C">>, PoolSelf, <<"B">>>>,
     <<PoolSelf, <<"C">>, <<"B">>>>, <<PoolSelf, <<"B">>, <<"C">>>>}

NoArg == [peers |-> <<>>, key |-> <<>>, id |-> 0]
NoPick == [getter |-> <<>>, ok |-> FALSE, returned |-> FALSE]
SawNoPool == [ringBy |-> 0, gettersBy |-> 0, doneBy |-> 0, done |-> <<>>,
              peer |-> <<>>]

\* &httpGetter{baseURL: peer + p.basePath}
NewGetter(peer) == [baseURL |-> peer \o defaultBasePath]

StartPool(procs, hashes) ==
    /\ ringHash \in hashes
    /\ poolMu = Nil
    /\ poolPeers = <<>>
    /\ poolGetters = <<>>
    /\ poolPc = [t \in procs |-> "idle"]
    /\ poolArg = [t \in procs |-> NoArg]
    /\ poolRet = [t \in procs |-> NoPick]
    /\ poolSaw = [t \in procs |-> SawNoPool]
    /\ poolHist = [sets |-> 0, picks |-> 0, ringBy |-> 0, gettersBy |-> 0,
                   doneBy |-> 0, done |-> <<>>, prev |-> <<>>,
                   ringOf |-> <<>>, prevOf |-> <<>>,
                   owners |-> [k \in PoolKeys |-> {}]]

\* Set is called: the goroutine is about to take p.mu
SetCall(t, peers) ==
    /\ poolPc[t] = "idle"
    /\ poolHist.sets + poolHist.picks < MaxPoolCalls
    /\ poolPc' = [poolPc EXCEPT ![t] = "setLock"]
    /\ poolArg' = [poolArg EXCEPT ![t] =
                      [peers |-> peers, key |-> <<>>, id |-> poolHist.sets + 1]]
    /\ poolRet' = [poolRet EXCEPT ![t] = NoPick]
    /\ poolSaw' = [poolSaw EXCEPT ![t] = SawNoPool]
    /\ poolHist' = [poolHist EXCEPT !.sets = @ + 1]
    /\ UNCHANGED <<ringHash, poolMu, poolPeers, poolGetters>>

\* p.mu.Lock()
SetLock(t) ==
    /\ poolPc[t] = "setLock"
    /\ poolMu = Nil
    /\ poolMu' = t
    /\ poolPc' = [poolPc EXCEPT ![t] = "setPeers"]
    /\ UNCHANGED <<ringHash, poolPeers, poolGetters, poolArg, poolRet, poolSaw,
                   poolHist>>

\* a plausible slip: the lock is released once the ring is built, before
\* the client map is
SetPeersRelease(t) ==
    /\ poolPc[t] = "setPeers"
    /\ poolPeers' = <<RingAdd(RingNew(Replicas), poolArg[t].peers)>>
    /\ poolMu' = Nil
    /\ poolPc' = [poolPc EXCEPT ![t] = "setGetters"]
    /\ poolHist' = [poolHist EXCEPT !.ringBy = poolArg[t].id,
                                    !.prev = poolPeers,
                                    !.prevOf = poolHist.ringOf,
                                    !.ringOf = poolArg[t].peers,
                                    !.owners = [k \in PoolKeys |-> {}]]
    /\ UNCHANGED <<ringHash, poolGetters, poolArg, poolRet, poolSaw>>

\* a plausible slip: the first peer of the list is left out of the ring
SetPeersSkipFirst(t) ==
    /\ poolPc[t] = "setPeers"
    /\ poolPeers' = <<RingAdd(RingNew(Replicas),
                              IF poolArg[t].peers = <<>> THEN <<>>
                              ELSE Tail(poolArg[t].peers))>>
    /\ poolPc' = [poolPc EXCEPT ![t] = "setGetters"]
    /\ poolHist' = [poolHist EXCEPT !.ringBy = poolArg[t].id,
                                    !.prev = poolPeers,
                                    !.prevOf = poolHist.ringOf,
                                    !.ringOf = poolArg[t].peers,
                                    !.owners = [k \in PoolKeys |-> {}]]
    /\ UNCHANGED <<ringHash, poolMu, poolGetters, poolArg, poolRet, poolSaw>>

\* p.peers = consistenthash.New(defaultReplicas, nil); p.peers.Add(peers...)
SetPeers(t) ==
    /\ poolPc[t] = "setPeers"
    /\ poolPeers' = <<RingAdd(RingNew(Replicas), poolArg[t].peers)>>
    /\ poolPc' = [poolPc EXCEPT ![t] = "setGetters"]
    /\ poolHist' = [poolHist EXCEPT !.ringBy = poolArg[t].id,
                                    !.prev = poolPeers,
                                    !.prevOf = poolHist.ringOf,
                                    !.ringOf = poolArg[t].peers,
                                    !.owners = [k \in PoolKeys |-> {}]]
    /\ UNCHANGED <<ringHash, poolMu, poolGetters, poolArg, poolRet, poolSaw>>

\* p.httpGetters = make(...); for _, peer := range peers { ... }
SetGetters(t) ==
    /\ poolPc[t] = "setGetters"
    /\ poolGetters' =
          [peer \in {poolArg[t].peers[i] : i \in 1..Len(poolArg[t].peers)}
              |-> NewGetter(peer)]
    /\ poolPc' = [poolPc EXCEPT ![t] = "setUnlock"]
    /\ poolHist' = [poolHist EXCEPT !.gettersBy = poolArg[t].id]
    /\ UNCHANGED <<ringHash, poolMu, poolPeers, poolArg, poolRet, poolSaw>>

\* the deferred p.mu.Unlock(); Set returns
SetUnlock(t) ==
    /\ poolPc[t] = "setUnlock"
    /\ poolMu' = Nil
    /\ poolPc' = [poolPc EXCEPT ![t] = "idle"]
    /\ poolHist' = [poolHist EXCEPT !.doneBy = poolArg[t].id,
                                    !.done = poolArg[t].peers]
    /\ UNCHANGED <<ringHash, poolPeers, poolGetters, poolArg, poolRet, poolSaw>>

\* PickPeer is called: the goroutine is about to take p.mu
PickCall(t, key) ==
    /\ poolPc[t] = "idle"
    /\ poolHist.doneBy > 0
    /\ poolHist.sets + poolHist.picks < MaxPoolCalls
    /\ poolPc' = [poolPc EXCEPT ![t] = "pickLock"]
    /\ poolArg' = [poolArg EXCEPT ![t] = [peers |-> <<>>, key |-> key, id |-> 0]]
    /\ poolRet' = [poolRet EXCEPT ![t] = NoPick]
    /\ poolSaw' = [poolSaw EXCEPT ![t] = SawNoPool]
    /\ poolHist' = [poolHist EXCEPT !.picks = @ + 1]
    /\ UNCHANGED <<ringHash, poolMu, poolPeers, poolGetters>>

\* p.mu.Lock()
PickLock(t) ==
    /\ poolPc[t] = "pickLock"
    /\ poolMu = Nil
    /\ poolMu' = t
    /\ poolPc' = [poolPc EXCEPT ![t] = "pick"]
    /\ UNCHANGED <<ringHash, poolPeers, poolGetters, poolArg, poolRet, poolSaw,
                   poolHist>>

\* if peer := p.peers.Get(key); peer != "" && peer != p.self {
\*     return p.httpGetters[peer], true }; return nil, false
\* and the deferred p.mu.Unlock()
PickLookup(t) ==
    LET key == poolArg[t].key
        peer == RingGet(poolPeers[1], key)
    IN  /\ poolPc[t] = "pick"
        /\ poolRet' = [poolRet EXCEPT ![t] =
              IF peer # <<>> /\ peer # PoolSelf
              THEN [getter |-> IF peer \in DOMAIN poolGetters
                               THEN <<poolGetters[peer]>> ELSE <<>>,
                    ok |-> TRUE, returned |-> FALSE]
              ELSE NoPick]
        /\ poolMu' = Nil
        /\ poolPc' = [poolPc EXCEPT ![t] = "pickRet"]
        /\ poolSaw' = [poolSaw EXCEPT ![t] =
              [ringBy |-> poolHist.ringBy, gettersBy |-> poolHist.gettersBy,
               doneBy |-> poolHist.doneBy, done |-> poolHist.done,
               peer |-> peer]]
        /\ poolHist' = [poolHist EXCEPT !.owners[key] = @ \cup {peer}]
        /\ UNCHANGED <<ringHash, poolPeers, poolGetters, poolArg>>

\* the caller has the results
PickReturn(t) ==
    /\ poolPc[t] = "pickRet"
    /\ poolRet' = [poolRet EXCEPT ![t].returned = TRUE]
    /\ poolPc' = [poolPc EXCEPT ![t] = "idle"]
    /\ UNCHANGED <<ringHash, poolMu, poolPeers, poolGetters, poolArg, poolSaw,
                   poolHist>>

(***************************************************************************)
(* ByteView and the buffers around it.  A []byte is a reference into the   *)
(* heap of byte arrays; the ByteView of a cache entry holds one in b, and  *)
(* a copy of the struct (what cache.get returns) holds the same one.       *)
(* Callers hold the buffers ByteSlice returned and write to them at will.  *)
(***************************************************************************)
\* a plausible slip: the slice itself is returned
CloneBytesAlias(heap, b) == [heap |-> heap, ref |-> b]

\* cloneBytes on the heap: a new array with the contents of b
CloneBytesIn(heap, b) ==
    [heap |-> Append(heap, cloneBytes(heap[b])), ref |-> Len(heap) + 1]

ByteSliceIn(heap, v) == CloneBytesIn(heap, v.b)
ByteViewLen(heap, v) == Len(heap[v.b])
\* string(v.b): the conversion copies the bytes
ByteViewString(heap, v) == [i \in 1..Len(heap[v.b]) |-> heap[v.b][i]]

NoRead == [op |-> "none", n |-> 0, bytes |-> <<>>, ref |-> 0]

\* a cache entry whose ByteView was built from bytes
StartView(bytes) ==
    /\ viewHeap = <<bytes>>
    /\ viewEntry = [b |-> 1]
    /\ viewBufs = {}
    /\ viewLast = NoRead
    /\ viewBuilt = bytes

\* a caller calls ByteSlice on the entry's ByteView and keeps the buffer
ViewByteSlice ==
    LET r == ByteSliceIn(viewHeap, viewEntry)
    IN  /\ Cardinality(viewBufs) < MaxCopies
        /\ viewHeap' = r.heap
        /\ viewBufs' = viewBufs \cup {r.ref}
        /\ viewLast' = [op |-> "ByteSlice", n |-> 0, bytes |-> r.heap[r.ref],
                        ref |-> r.ref]
        /\ UNCHANGED <<viewEntry, viewBuilt>>

ViewLen ==
    /\ viewLast' = [NoRead EXCEPT !.op = "Len",
                                  !.n = ByteViewLen(viewHeap, viewEntry)]
    /\ UNCHANGED <<viewHeap, viewEntry, viewBufs, viewBuilt>>

ViewString ==
    /\ viewLast' = [NoRead EXCEPT !.op = "String",
                                  !.bytes = ByteViewString(viewHeap, viewEntry)]
    /\ UNCHANGED <<viewHeap, viewEntry, viewBufs, viewBuilt>>

\* cache.get returns v.(ByteView): a copy of the struct, the same b
ViewGet ==
    /\ viewLast' = [NoRead EXCEPT !.op = "get", !.ref = viewEntry.b,
                                  !.bytes = viewHeap[viewEntry.b]]
    /\ UNCHANGED <<viewHeap, viewEntry, viewBufs, viewBuilt>>

\* a caller writes x at index i of a buffer it was given
ViewMutate(ref, i, x) ==
    /\ ref \in viewBufs
    /\ i \in 1..Len(viewHeap[ref])
    /\ viewHeap[ref][i] # x
    /\ viewHeap' = [viewHeap EXCEPT ![ref][i] = x]
    /\ viewLast' = [NoRead EXCEPT !.op = "write", !.ref = ref]
    /\ UNCHANGED <<viewEntry, viewBufs, viewBuilt>>

(***************************************************************************)
(* cache.add and cache.get, step by step (cache.go).                       *)
(*                                                                         *)
(* Positions of a goroutine:                                               *)
(*   idle    not in a call                                                 *)
(*   lock    called; next c.mu.Lock()                                      *)
(*   test    holds c.mu; next the test c.lru == nil                        *)
(*   new     add found c.lru nil; next c.lru = lru.New(c.cacheBytes, nil)  *)
(*   op      next c.lru.Add(key, value) or c.lru.Get(key)                  *)
(*   unlock  next the deferred c.mu.Unlock() and the return                *)
(***************************************************************************)
NoGuardRet == [value |-> <<>>, ok |-> FALSE, returned |-> FALSE, early |-> FALSE]

StartGuard(procs, cacheBytes) ==
    /\ guardMu = Nil
    /\ guardC = [lru |-> <<>>, cacheBytes |-> cacheBytes]
    /\ guardPc = [t \in procs |-> "idle"]
    /\ guardArg = [t \in procs |-> [op |-> Nil, key |-> Nil, value |-> <<>>]]
    /\ guardRet = [t \in procs |-> NoGuardRet]
    /\ guardHist = [calls |-> 0, locked |-> 0, news |-> 0, newAt |-> {},
                    added |-> <<>>]

\* a goroutine calls c.add(key, value) or c.get(key)
GuardCall(t, op, key, value) ==
    /\ guardPc[t] = "idle"
    /\ guardHist.calls < MaxGuardCalls
    /\ guardPc' = [guardPc EXCEPT ![t] = "lock"]
    /\ guardArg' = [guardArg EXCEPT ![t] = [op |-> op, key |-> key, value |-> value]]
    /\ guardRet' = [guardRet EXCEPT ![t] = NoGuardRet]
    /\ guardHist' = [guardHist EXCEPT !.calls = @ + 1]
    /\ UNCHANGED <<guardMu, guardC>>

\* a plausible slip: the call goes on without waiting for c.mu
GuardLockNoWait(t) ==
    /\ guardPc[t] = "lock"
    /\ guardMu' = t
    /\ guardPc' = [guardPc EXCEPT ![t] = "test"]
    /\ guardRet' = [guardRet EXCEPT ![t].early = guardHist.locked = 0]
    /\ guardHist' = [guardHist EXCEPT
                       !.locked = IF guardArg[t].op = "add" THEN @ + 1 ELSE @]
    /\ UNCHANGED <<guardC, guardArg>>

\* c.mu.Lock()
GuardLock(t) ==
    /\ guardPc[t] = "lock"
    /\ guardMu = Nil
    /\ guardMu' = t
    /\ guardPc' = [guardPc EXCEPT ![t] = "test"]
    /\ guardRet' = [guardRet EXCEPT ![t].early = guardHist.locked = 0]
    /\ guardHist' = [guardHist EXCEPT
                       !.locked = IF guardArg[t].op = "add" THEN @ + 1 ELSE @]
    /\ UNCHANGED <<guardC, guardArg>>

\* add: if c.lru == nil
AddTest(t) ==
    /\ guardPc[t] = "test"
    /\ guardArg[t].op = "add"
    /\ guardPc' = [guardPc EXCEPT ![t] = IF guardC.lru = <<>> THEN "new" ELSE "op"]
    /\ UNCHANGED <<guardMu, guardC, guardArg, guardRet, guardHist>>

\* add: c.lru = lru.New(c.cacheBytes, nil)
AddNew(t) ==
    /\ guardPc[t] = "new"
    /\ guardC' = [guardC EXCEPT !.lru = <<New(guardC.cacheBytes, FALSE)>>]
    /\ guardPc' = [guardPc EXCEPT ![t] = "op"]
    /\ guardHist' = [guardHist EXCEPT !.news = @ + 1,
                                      !.newAt = @ \cup {guardHist.locked}]
    /\ UNCHANGED <<guardMu, guardArg, guardRet>>

\* add: c.lru.Add(key, value)
AddOp(t) ==
    /\ guardPc[t] = "op"
    /\ guardArg[t].op = "add"
    /\ guardC' = [guardC EXCEPT
                    !.lru = <<Add(guardC.lru[1], guardArg[t].key, guardArg[t].value)>>]
    /\ guardPc' = [guardPc EXCEPT ![t] = "unlock"]
    /\ guardRet' = [guardRet EXCEPT ![t].ok = TRUE]
    /\ guardHist' = [guardHist EXCEPT
                       !.added = (guardArg[t].key :> guardArg[t].value) @@ @]
    /\ UNCHANGED <<guardMu, guardArg>>

\* get: if c.lru == nil { return }
GetTest(t) ==
    /\ guardPc[t] = "test"
    /\ guardArg[t].op = "get"
    /\ guardPc' = [guardPc EXCEPT ![t] = IF guardC.lru = <<>> THEN "unlock" ELSE "op"]
    /\ UNCHANGED <<guardMu, guardC, guardArg, guardRet, guardHist>>

\* get: if v, ok := c.lru.Get(key); ok { return v.(ByteView), ok }; return
GetOp(t) ==
    /\ guardPc[t] = "op"
    /\ guardArg[t].op = "get"
    /\ LET r == Get(guardC.lru[1], guardArg[t].key)
       IN  /\ guardC' = [guardC EXCEPT !.lru = <<r.c>>]
           /\ guardRet' = [guardRet EXCEPT ![t].value = r.value, ![t].ok = r.ok]
    /\ guardPc' = [guardPc EXCEPT ![t] = "unlock"]
    /\ UNCHANGED <<guardMu, guardArg, guardHist>>

\* the deferred c.mu.Unlock(), and the return
GuardUnlock(t) ==
    /\ guardPc[t] = "unlock"
    /\ guardMu' = Nil
    /\ guardPc' = [guardPc EXCEPT ![t] = "idle"]
    /\ guardRet' = [guardRet EXCEPT ![t].returned = TRUE]
    /\ UNCHANGED <<guardC, guardArg, guardHist>>

(***************************************************************************)
(* The specifications.  Each runs one subsystem; the variables of the      *)
(* others keep the value they have when that subsystem is not in use.      *)
(***************************************************************************)
vars == <<lruVars, sfVars, httpVars, grpVars, poolVars, viewVars, guardVars>>

IdleLRU ==
    /\ lru = New(0, FALSE)
    /\ lastOp = [op |-> "New", key |-> Nil, value |-> <<>>, ok |-> FALSE, had |-> FALSE]
    /\ touch = [k \in LruKeys |-> 0]
    /\ clock = 0
    /\ scn = 0

IdleSF == StartSF({})

IdleHTTP == StartHTTP

IdlePool == StartPool({}, {<<>>})

IdleView == StartView(<<>>)

IdleGuard == StartGuard({}, 0)

IdleGroup ==
    /\ mainCache = [lru |-> <<>>, cacheBytes |-> 0]
    /\ gPc = <<>>
    /\ gKey = <<>>
    /\ gRet = <<>>
    /\ gLoad = <<>>
    /\ gCount = [gets |-> 0, loads |-> <<>>, fetches |-> <<>>, stored |-> <<>>]

\* SpecLRU: any sequence of Add, Get and RemoveOldest on one store
InitLRU == StartLRU /\ IdleSF /\ IdleHTTP /\ IdleGroup /\ IdlePool /\ IdleView /\ IdleGuard

NextLRU ==
    \/ \E key \in LruKeys, value \in LruValues :
          LruAdd(key, value) /\ UNCHANGED <<sfVars, httpVars, grpVars, poolVars, viewVars, guardVars>>
    \/ \E key \in LruKeys : LruGet(key) /\ UNCHANGED <<sfVars, httpVars, grpVars, poolVars, viewVars, guardVars>>
    \/ LruRemoveOldest /\ UNCHANGED <<sfVars, httpVars, grpVars, poolVars, viewVars, guardVars>>

SpecLRU == InitLRU /\ [][NextLRU]_vars

\* SpecSF: goroutines calling Do on one Group, fn returning any result
InitSF == StartSF(SFProcs) /\ IdleLRU /\ IdleHTTP /\ IdleGroup /\ IdlePool /\ IdleView /\ IdleGuard

NextSF ==
    \/ \E p \in SFProcs, key \in SFKeys : DoCall(p, key) /\ UNCHANGED <<lruVars, httpVars, grpVars, poolVars, viewVars, guardVars>>
    \/ \E p \in SFProcs : DoLock(p) /\ UNCHANGED <<lruVars, httpVars, grpVars, poolVars, viewVars, guardVars>>
    \/ \E p \in SFProcs : DoCheck(p) /\ UNCHANGED <<lruVars, httpVars, grpVars, poolVars, viewVars, guardVars>>
    \/ \E p \in SFProcs : DoWait(p) /\ UNCHANGED <<lruVars, httpVars, grpVars, poolVars, viewVars, guardVars>>
    \/ \E p \in SFProcs, res \in FnResults : DoFn(p, res) /\ UNCHANGED <<lruVars, httpVars, grpVars, poolVars, viewVars, guardVars>>
    \/ \E p \in SFProcs : DoDone(p) /\ UNCHANGED <<lruVars, httpVars, grpVars, poolVars, viewVars, guardVars>>
    \/ \E p \in SFProcs : DoLock2(p) /\ UNCHANGED <<lruVars, httpVars, grpVars, poolVars, viewVars, guardVars>>
    \/ \E p \in SFProcs : DoDelete(p) /\ UNCHANGED <<lruVars, httpVars, grpVars, poolVars, viewVars, guardVars>>

SpecSF == InitSF /\ [][NextSF]_vars

\* the steps of goroutine p inside Do, the return of fn aside
StepSF(p) ==
    /\ \/ DoLock(p) \/ DoCheck(p) \/ DoWait(p) \/ DoDone(p) \/ DoLock2(p)
       \/ DoDelete(p)
    /\ UNCHANGED <<lruVars, httpVars, grpVars, poolVars, viewVars, guardVars>>

\* the fn of goroutine p returns
FnReturns(p) ==
    /\ \E res \in FnResults : DoFn(p, res)
    /\ UNCHANGED <<lruVars, httpVars, grpVars, poolVars, viewVars, guardVars>>

\* SpecSFFair: the scheduler runs every goroutine that can take a step, a
\* free mutex is given to a goroutine waiting for it, and every fn returns
SpecSFFair ==
    /\ SpecSF
    /\ \A p \in SFProcs : WF_vars(StepSF(p)) /\ WF_vars(FnReturns(p))

\* SpecSFHang: as SpecSFFair, but an fn called for HangKey need not return
HangKey == "k1"
SpecSFHang ==
    /\ SpecSF
    /\ \A p \in SFProcs :
          WF_vars(StepSF(p)) /\ WF_vars(sfKey[p] # HangKey /\ FnReturns(p))

\* SpecHTTP: requests served by one HTTPPool, one after the other
InitHTTP == StartHTTP /\ IdleLRU /\ IdleSF /\ IdleGroup /\ IdlePool /\ IdleView /\ IdleGuard

NextHTTP ==
    \/ \E r \in Remainders, answer \in Answers, marshalErr \in MarshalErrs :
          Receive(defaultBasePath \o r, answer, marshalErr)
              /\ UNCHANGED <<lruVars, sfVars, grpVars, poolVars, viewVars, guardVars>>
    \/ \E path \in OtherPaths, answer \in Answers :
          Receive(path, answer, Nil) /\ UNCHANGED <<lruVars, sfVars, grpVars, poolVars, viewVars, guardVars>>
    \/ Serve /\ UNCHANGED <<lruVars, sfVars, grpVars, poolVars, viewVars, guardVars>>
    \/ Reply /\ UNCHANGED <<lruVars, sfVars, grpVars, poolVars, viewVars, guardVars>>

SpecHTTP == InitHTTP /\ [][NextHTTP]_vars

\* SpecGroup: goroutines calling Get on one Group; the peer picker, the
\* network and the local data loader answer anything they can
InitGroup == StartGroup /\ StartSF(GProcs) /\ IdleLRU /\ IdleHTTP /\ IdlePool /\ IdleView /\ IdleGuard

FrameGroup == UNCHANGED <<lruVars, httpVars, poolVars, viewVars, guardVars>>

NextGroup ==
    \/ \E p \in GProcs, key \in GKeys :
          GetCall(p, key) /\ UNCHANGED sfVars /\ FrameGroup
    \/ \E p \in GProcs : GetEmptyKey(p) /\ UNCHANGED sfVars /\ FrameGroup
    \/ \E p \in GProcs : GetHit(p) /\ UNCHANGED sfVars /\ FrameGroup
    \/ \E p \in GProcs : GetMiss(p) /\ DoCall(p, gKey[p]) /\ FrameGroup
    \/ \E p \in GProcs : InDo(p) /\ DoLock(p) /\ FrameGroup
    \/ \E p \in GProcs : InDo(p) /\ DoCheck(p) /\ FrameGroup
    \/ \E p \in GProcs, remote \in BOOLEAN :
          LoadPick(p, remote) /\ UNCHANGED sfVars /\ FrameGroup
    \/ \E p \in GProcs, res \in NetOutcomes :
          LoadFetchFail(p, res) /\ UNCHANGED sfVars /\ FrameGroup
    \/ \E p \in GProcs, res \in NetOutcomes :
          LoadFetchOk(p, res)
              /\ DoFn(p, [val |-> httpGetterGet(res).value, err |-> Nil])
              /\ FrameGroup
    \/ \E p \in GProcs, answer \in LoaderAnswers :
          LoadLocalFail(p, answer)
              /\ DoFn(p, [val |-> <<>>, err |-> answer.err])
              /\ FrameGroup
    \/ \E p \in GProcs, answer \in LoaderAnswers :
          LoadLocalOk(p, answer)
              /\ DoFn(p, [val |-> cloneBytes(answer.bytes), err |-> Nil])
              /\ FrameGroup
    \/ \E p \in GProcs : InDo(p) /\ DoDone(p) /\ FrameGroup
    \/ \E p \in GProcs : InDo(p) /\ DoLock2(p) /\ FrameGroup
    \/ \E p \in GProcs : DoWait(p) /\ GetReturn(p, sfRet'[p]) /\ FrameGroup
    \/ \E p \in GProcs : DoDelete(p) /\ GetReturn(p, sfRet'[p]) /\ FrameGroup

SpecGroup == InitGroup /\ [][NextGroup]_vars

\* SpecPool: goroutines calling Set and PickPeer on one pool
InitPool ==
    /\ StartPool(PoolProcs, SampleHashes)
    /\ IdleLRU /\ IdleSF /\ IdleHTTP /\ IdleGroup /\ IdleView /\ IdleGuard

FramePool == UNCHANGED <<lruVars, sfVars, httpVars, grpVars, viewVars, guardVars>>

NextPool ==
    \/ \E t \in PoolProcs, peers \in PeerLists : SetCall(t, peers) /\ FramePool
    \/ \E t \in PoolProcs : SetLock(t) /\ FramePool
    \/ \E t \in PoolProcs : SetPeers(t) /\ FramePool
    \/ \E t \in PoolProcs : SetGetters(t) /\ FramePool
    \/ \E t \in PoolProcs : SetUnlock(t) /\ FramePool
    \/ \E t \in PoolProcs, key \in PoolKeys : PickCall(t, key) /\ FramePool
    \/ \E t \in PoolProcs : PickLock(t) /\ FramePool
    \/ \E t \in PoolProcs : PickLookup(t) /\ FramePool
    \/ \E t \in PoolProcs : PickReturn(t) /\ FramePool

SpecPool == InitPool /\ [][NextPool]_vars

\* SpecRing: one goroutine setting the peers and picking, for every hash
\* function
InitRing ==
    /\ StartPool(RingProcs, HashFns)
    /\ IdleLRU /\ IdleSF /\ IdleHTTP /\ IdleGroup /\ IdleView /\ IdleGuard

NextRing ==
    \/ \E t \in RingProcs, peers \in PeerLists : SetCall(t, peers) /\ FramePool
    \/ \E t \in RingProcs : SetLock(t) /\ FramePool
    \/ \E t \in RingProcs : SetPeers(t) /\ FramePool
    \/ \E t \in RingProcs : SetGetters(t) /\ FramePool
    \/ \E t \in RingProcs : SetUnlock(t) /\ FramePool
    \/ \E t \in RingProcs, key \in PoolKeys : PickCall(t, key) /\ FramePool
    \/ \E t \in RingProcs : PickLock(t) /\ FramePool
    \/ \E t \in RingProcs : PickLookup(t) /\ FramePool
    \/ \E t \in RingProcs : PickReturn(t) /\ FramePool

SpecRing == InitRing /\ [][NextRing]_vars

\* SpecView: callers reading one entry's ByteView and writing to the buffers
\* ByteSlice gave them
InitView ==
    /\ \E bytes \in Values : StartView(bytes)
    /\ IdleLRU /\ IdleSF /\ IdleHTTP /\ IdleGroup /\ IdlePool /\ IdleGuard

FrameView == UNCHANGED <<lruVars, sfVars, httpVars, grpVars, poolVars, guardVars>>

NextView ==
    \/ ViewByteSlice /\ FrameView
    \/ ViewLen /\ FrameView
    \/ ViewString /\ FrameView
    \/ ViewGet /\ FrameView
    \/ \E ref \in viewBufs, i \in 1..2, x \in WrittenBytes :
          ViewMutate(ref, i, x) /\ FrameView

SpecView == InitView /\ [][NextView]_vars

\* SpecGuard: goroutines calling add and get on one cache guard
InitGuard ==
    /\ \E cacheBytes \in GuardBytes : StartGuard(GuardProcs, cacheBytes)
    /\ IdleLRU /\ IdleSF /\ IdleHTTP /\ IdleGroup /\ IdlePool /\ IdleView

NextGuard ==
    /\ \/ \E t \in GuardProcs, key \in GuardKeys, value \in GuardValues :
             GuardCall(t, "add", key, value)
       \/ \E t \in GuardProcs, key \in GuardKeys : GuardCall(t, "get", key, <<>>)
       \/ \E t \in GuardProcs : GuardLock(t)
       \/ \E t \in GuardProcs : AddTest(t)
       \/ \E t \in GuardProcs : AddNew(t)
       \/ \E t \in GuardProcs : AddOp(t)
       \/ \E t \in GuardProcs : GetTest(t)
       \/ \E t \in GuardProcs : GetOp(t)
       \/ \E t \in GuardProcs : GuardUnlock(t)
    /\ UNCHANGED <<lruVars, sfVars, httpVars, grpVars, poolVars, viewVars>>

SpecGuard == InitGuard /\ [][NextGuard]_vars

(***************************************************************************)
(* Claims about the LRU store (SpecLRU).                                   *)
(***************************************************************************)
EntrySize(key, value) == Len(key) + Len(value)
EvictedKeys(c) == [i \in 1..Len(c.evicted) |-> c.evicted[i][1]]
\* the keys in the store just before the i-th eviction of the last operation
LiveBefore(c, i) == Live(c) \cup {c.evicted[j][1] : j \in i..Len(c.evicted)}
Touched == lastOp.op = "Add" \/ (lastOp.op = "Get" /\ lastOp.ok)

\* C1: on a store created with maxBytes > 0, when an Add returns (whatever
\* Add, Get and RemoveOldest calls came before it, new key or existing key),
\* nbytes <= maxBytes.
C1_CapacityAfterAdd ==
    (lastOp.op = "Add" /\ lru.maxBytes > 0) => lru.nbytes <= lru.maxBytes

\* an Add that had to evict two entries to get back under the capacity
C1_Witness ==
    /\ lastOp.op = "Add"
    /\ lru.maxBytes > 0
    /\ Len(lru.evicted) >= 2
    /\ lru.ll # <<>>

\* C4: every entry evicted (by RemoveOldest, or by Add's over-capacity loop)
\* is, among the entries in the store at that moment, the one whose most
\* recent touch is the oldest; and on a store of two bytes, Add of the
\* one-byte entries a, b, c in that order evicts a when c is added and
\* leaves exactly {b, c}.
C4_EvictsLeastRecentlyTouched ==
    /\ \A i \in 1..Len(lru.evicted) :
          \A k \in LiveBefore(lru, i) \ {lru.evicted[i][1]} :
              touch[k] > touch[lru.evicted[i][1]]
    /\ (scn = 2 /\ lru.maxBytes = 2) =>
          (Live(lru) = {"a", "b"} /\ lru.evicted = <<>>)
    /\ (scn = 3 /\ lru.maxBytes = 2) =>
          (Live(lru) = {"b", "c"} /\ EvictedKeys(lru) = <<"a">>)

\* an eviction whose victim is not the entry that was inserted first: it was
\* the oldest by touch only because a Get promoted the older insertion
C4_Witness ==
    /\ lastOp.op = "Add"
    /\ EvictedKeys(lru) = <<"b">>
    /\ Live(lru) = {"a", "c"}
    /\ touch["a"] > touch["b"]
    /\ clock = 4

C4_WitnessScenario ==
    scn = 3 /\ lru.maxBytes = 2 /\ EvictedKeys(lru) = <<"a">>

\* C5 as stated: Get(k) on a present key, or Add(k, v), makes k the
\* most-recently-used key (it is in the store, at the front), and the next
\* eviction does not remove k unless every other key in the store has been
\* touched after that call.
C5_NextEviction ==
    [][\A k \in LruKeys :
          (/\ lru.ll # <<>>
           /\ lru.ll[1].key = k
           /\ lru'.evicted # <<>>
           /\ lru'.evicted[1][1] = k)
          => \A j \in Live(lru) \ {k} : touch'[j] > touch[k]]_vars

Fits(c, key, value) == c.maxBytes = 0 \/ EntrySize(key, value) <= c.maxBytes

RECURSIVE SumSizes(_)
SumSizes(ll) ==
    IF ll = <<>> THEN 0
    ELSE EntrySize(Head(ll).key, Head(ll).value) + SumSizes(Tail(ll))

\* C14: after every Add, Get and RemoveOldest (an Add on an existing key
\* with a larger or a smaller value and evictions included), nbytes is the
\* sum of len(key) + len(value) over the entries of the list, the map has
\* exactly the keys of the list, each once, each mapped to its own
\* element, and Len() is the number of keys.
C14_Bookkeeping ==
    /\ lru.nbytes = SumSizes(lru.ll)
    /\ DOMAIN lru.cache = Live(lru)
    /\ Len(lru.ll) = Cardinality(Live(lru))
    /\ \A key \in DOMAIN lru.cache :
          /\ \E i \in 1..Len(lru.ll) : lru.ll[i].id = lru.cache[key]
          /\ lru.ll[PosOf(lru.ll, lru.cache[key])].key = key
    /\ LruLen(lru) = Cardinality(DOMAIN lru.cache)

\* an Add that replaced the value of an existing key by a longer one and
\* had to evict another entry for it
C14_Witness ==
    /\ lastOp.op = "Add"
    /\ lastOp.had
    /\ lastOp.value = <<7, 8>>
    /\ Len(lru.evicted) = 1
    /\ lru.nbytes = 3
    /\ LruLen(lru) = 1

\* the last operation was an Add of an entry larger than the capacity
Oversize ==
    /\ lastOp.op = "Add"
    /\ lru.maxBytes > 0
    /\ EntrySize(lastOp.key, lastOp.value) > lru.maxBytes

\* C15: an Add of an entry with len(key) + len(value) > maxBytes > 0 is
\* carried out (the entry is inserted, Add returns nothing), and its own
\* eviction loop removes every entry, the new one last: when Add returns
\* the store is empty (Len() = 0, nbytes = 0) whatever it held, and a
\* Get(key) that follows reports not found.
C15_OversizeAddEmptiesStore ==
    /\ [](Oversize =>
            /\ lru.ll = <<>>
            /\ LruLen(lru) = 0
            /\ lru.nbytes = 0
            /\ DOMAIN lru.cache = {}
            /\ lru.evicted # <<>>
            /\ lru.evicted[Len(lru.evicted)] = <<lastOp.key, lastOp.value>>
            /\ ~Get(lru, lastOp.key).ok)
    /\ [][(Oversize /\ lastOp'.op = "Get" /\ lastOp'.key = lastOp.key
              /\ clock' = clock + 1)
            => (~lastOp'.ok /\ lru'.ll = <<>>)]_vars

\* a store of two entries emptied by the Add of a third of three bytes
C15_Witness ==
    /\ Oversize
    /\ ~lastOp.had
    /\ lru.maxBytes = 2
    /\ Len(lru.evicted) = 3
    /\ lru.ll = <<>>

\* the store has the same entries in the same order, and the same nbytes
SameStore(c, d) == c.ll = d.ll /\ c.cache = d.cache /\ c.nbytes = d.nbytes

\* C16: when maxBytes = 0 or len(k) + len(v) <= maxBytes, Add(k, v) does
\* not evict k, and a Get(k) right after it returns (v, true), whatever the
\* store held; a Get of a key that is not in the store returns false and
\* leaves the entries, their order and nbytes as they were.
C16_ReadYourWrite ==
    /\ []((lastOp.op = "Add" /\ Fits(lru, lastOp.key, lastOp.value)) =>
            /\ \A i \in 1..Len(lru.evicted) : lru.evicted[i][1] # lastOp.key
            /\ Get(lru, lastOp.key).ok
            /\ Get(lru, lastOp.key).value = lastOp.value)
    /\ [][(/\ lastOp.op = "Add"
            /\ Fits(lru, lastOp.key, lastOp.value)
            /\ lastOp'.op = "Get"
            /\ lastOp'.key = lastOp.key
            /\ clock' = clock + 1)
           => (lastOp'.ok /\ lastOp'.value = lastOp.value)]_vars
    /\ [][(lastOp'.op = "Get" /\ clock' = clock + 1
              /\ lastOp'.key \notin Live(lru))
           => (~lastOp'.ok /\ SameStore(lru', lru))]_vars

\* the value of an existing key was replaced by a longer one, another entry
\* was evicted to make room, and a Get of the key finds the new value
C16_Witness ==
    /\ lastOp.op = "Add"
    /\ lastOp.had
    /\ lastOp.key = "dd"
    /\ lastOp.value = <<7>>
    /\ lru.maxBytes = 3
    /\ Len(lru.evicted) = 1
    /\ Get(lru, "dd").value = <<7>>

(***************************************************************************)
(* Claims about the dedup group (SpecSF).                                  *)
(***************************************************************************)
Returned(p) == sfRet[p] # NotReturned
ResultOf(c) == [val |-> sfCalls[c].val, err |-> sfCalls[c].err]

\* C2: the Do calls for a key that arrive (look the key up, under g.mu)
\* before the first caller's fn has returned all join the first caller's
\* call; fn runs exactly once for it, and every one of them returns the
\* (value, error) pair that this one execution produced.
C2_SharedExecution ==
    /\ \A p \in DOMAIN sfPc : sfSaw[p].inflight \subseteq {sfC[p]}
    /\ \A c \in 1..Len(sfCalls) :
          sfCalls[c].execs = IF sfCalls[c].returned THEN 1 ELSE 0
    /\ \A p \in DOMAIN sfPc :
          Returned(p) => /\ sfCalls[sfC[p]].returned
                         /\ sfRet[p] = ResultOf(sfC[p])

\* three callers of one key, two of them arrived while fn was running, all
\* three back with the error of the one execution
C2_Witness ==
    /\ Len(sfCalls) = 1
    /\ sfCalls[1].execs = 1
    /\ \A p \in SFProcs : sfC[p] = 1 /\ sfRet[p] = [val |-> Nil, err |-> "boom"]
    /\ Cardinality({p \in SFProcs : sfSaw[p].inflight = {1}}) = 2

\* C3: in every state, for every key, at most one goroutine is inside fn
\* for that key and at most one call of that key has an fn that has not
\* returned, however many callers there are and whenever they arrive.
C3_OneInFlightPerKey ==
    \A key \in SFKeys :
        /\ Cardinality({p \in DOMAIN sfPc : sfPc[p] = "fn" /\ sfKey[p] = key}) <= 1
        /\ Cardinality(InFlight(key)) <= 1

\* a caller that looked the key up after wg.Done() and before the delete
\* waits on the finished call, while the next caller of the key, arrived
\* after the delete, is running fn
C3_Witness ==
    \E p, q \in SFProcs :
        /\ sfPc[p] = "wait"
        /\ sfSaw[p].signalled
        /\ sfPc[q] = "fn"
        /\ sfKey[q] = sfKey[p]
        /\ sfC[q] # sfC[p]

(***************************************************************************)
(* Claims about the peer protocol's server (SpecHTTP).                     *)
(***************************************************************************)
Handled == httpReq.phase = "done"
UnderBase == HasPrefix(httpReq.path, defaultBasePath)
\* the request path after the base path, and its '/' characters
Rest == SubSeq(httpReq.path, Len(defaultBasePath) + 1, Len(httpReq.path))
Slashes == {i \in 1..Len(Rest) : Rest[i] = "/"}
\* for a path <basePath><groupName>/<key>: the group name has no '/'
PathGroup == SubSeq(Rest, 1, Min(Slashes) - 1)
PathKey == SubSeq(Rest, Min(Slashes) + 1, Len(Rest))

\* C9: a request whose path is <basePath><groupName>/<key> gets exactly one
\* of: 404 when groupName is not a registered group, Group.Get not being
\* called; 500 with the error's text when Group.Get(key) or the
\* serialization fails; otherwise 200 with the binary content type and the
\* serialization of exactly the bytes Group.Get returned.
C9_OneOutcome ==
    (Handled /\ UnderBase /\ Slashes # {}) =>
        /\ ~httpResp.panic
        /\ httpResp.groups = <<PathGroup>>
        /\ IF PathGroup \notin GroupNames
           THEN /\ httpResp.status = StatusNotFound
                /\ httpResp.gets = <<>>
                /\ httpResp.body = <<>>
           ELSE /\ Len(httpResp.gets) = 1
                /\ httpResp.gets[1].key = PathKey
                /\ LET r == httpResp.gets[1].result
                   IN  IF r.err # Nil
                       THEN /\ httpResp.status = StatusInternalServerError
                            /\ httpResp.text = <<r.err>>
                            /\ httpResp.body = <<>>
                       ELSE IF httpReq.marshalErr # Nil
                       THEN /\ httpResp.status = StatusInternalServerError
                            /\ httpResp.text = <<httpReq.marshalErr>>
                            /\ httpResp.body = <<>>
                       ELSE /\ httpResp.status = StatusOK
                            /\ httpResp.contentType = "application/octet-stream"
                            /\ httpResp.body = Marshal(r.value)
                            /\ Unmarshal(httpResp.body) = [value |-> r.value, ok |-> TRUE]

\* a request for key k of group g answered 200 with the two bytes 7, 8
C9_Witness ==
    /\ Handled
    /\ Rest = <<"g", "/", "k">>
    /\ httpResp.status = StatusOK
    /\ httpResp.body = <<10, 2, 7, 8>>
    /\ httpResp.gets = <<[key |-> <<"k">>, result |-> [value |-> <<7, 8>>, err |-> Nil]]>>

NoLookup == httpResp.groups = <<>> /\ httpResp.gets = <<>>

\* C10 as stated: a request under the base path whose remainder is not two
\* segments separated by exactly one '/' (more parts, or fewer) is answered
\* 400, with no group lookup and no Group.Get.
C10_AsStated ==
    (Handled /\ UnderBase /\ Cardinality(Slashes) # 1) =>
        (httpResp.status = StatusBadRequest /\ NoLookup)

\* C10 as amended: a request under the base path whose remainder has no '/'
\* (fewer than two parts) is answered 400, with no group lookup and no
\* Group.Get; a remainder with more than one '/' is not rejected: it is cut
\* at its first '/' only, the group name being what precedes it and the key
\* all that follows, further '/' included.
C10_MalformedPathAmended ==
    /\ (Handled /\ UnderBase /\ Slashes = {}) =>
          (httpResp.status = StatusBadRequest /\ NoLookup)
    /\ (Handled /\ UnderBase /\ Cardinality(Slashes) > 1) =>
          /\ httpResp.status # StatusBadRequest
          /\ httpResp.groups = <<PathGroup>>
          /\ PathGroup \in GroupNames =>
                (Len(httpResp.gets) = 1 /\ httpResp.gets[1].key = PathKey)

\* a one-segment path refused, and (the second witness) a three-segment
\* path served with the key k/h
C10_Witness ==
    /\ Handled
    /\ Rest = <<"g", "k">>
    /\ httpResp.status = StatusBadRequest
    /\ NoLookup

C10_WitnessLongKey ==
    /\ Handled
    /\ Rest = <<"g", "/", "k", "/">>
    /\ httpResp.status = StatusOK
    /\ httpResp.gets[1].key = <<"k", "/">>

(***************************************************************************)
(* Claims about Group.Get (SpecGroup).                                     *)
(***************************************************************************)
Resident(key) ==
    mainCache.lru # <<>> /\ key \in DOMAIN mainCache.lru[1].cache
Cached(key) ==
    LET c == mainCache.lru[1] IN c.ll[PosOf(c.ll, c.cache[key])].value
\* the goroutine's Get went through Do and has returned
ReturnedFromDo(p) == gPc[p] = "idle" /\ gKey[p] # "" /\ ~gLoad[p].hit
\* the goroutine joined a call that another goroutine registered
Waiter(p) == sfC[p] > 0 /\ sfCalls[sfC[p]].owner # p

\* C6: once a load (remote fetch or local loader) has stored a value for k,
\* a Get(k) that starts its lookup while the entry is resident returns that
\* value as a local hit: the local loader, the peer client and the dedup
\* group are not touched by it.
C6_ReadThroughHit ==
    /\ [](\A key \in GKeys : Resident(key) => Cached(key) = gCount.stored[key])
    /\ [][\A p \in GProcs :
             (/\ gPc[p] = "get"
              /\ gKey[p] # ""
              /\ Resident(gKey[p])
              /\ gPc'[p] # "get")
             => /\ gPc'[p] = "idle"
                /\ gRet'[p] = [value |-> gCount.stored[gKey[p]], err |-> Nil]
                /\ gLoad'[p] = [NoLoad EXCEPT !.hit = TRUE]
                /\ gCount' = gCount
                /\ UNCHANGED sfVars]_vars

\* the second Get of k is a hit: one loader call, one Do call, the value 7
C6_Witness ==
    \E p \in GProcs :
        /\ gPc[p] = "idle"
        /\ gLoad[p].hit
        /\ gRet[p] = [value |-> <<7>>, err |-> Nil]
        /\ gCount.loads["k"] = 1
        /\ gCount.fetches["k"] = 0
        /\ sfStarted = 1
        /\ gCount.gets = 2

\* C7: when a remote peer was picked and the fetch from it failed (peer
\* unreachable, status other than 200, body unreadable or undecodable), the
\* lookup goes on to the local data loader; it fails only if the loader
\* fails too, and returns the loader's value otherwise.
C7_RemoteFailureFallsBack ==
    \A p \in GProcs :
        (gLoad[p].fetches = 1 /\ gLoad[p].net # "ok") =>
            /\ gLoad[p].fetchErr # Nil
            /\ gPc[p] \in {"local", "do", "idle"}
            /\ gLoad[p].loads = IF gPc[p] = "local" THEN 0 ELSE 1
            /\ gPc[p] = "idle" =>
                  IF gLoad[p].loadErr = Nil
                  THEN gRet[p] = [value |-> gLoad[p].loaded, err |-> Nil]
                  ELSE gRet[p] = [value |-> <<>>, err |-> gLoad[p].loadErr]

\* the peer answered 500, the loader answered 7, Get returned 7
C7_Witness ==
    \E p \in GProcs :
        /\ gPc[p] = "idle"
        /\ gLoad[p].net = "status"
        /\ gLoad[p].loads = 1
        /\ gRet[p] = [value |-> <<7>>, err |-> Nil]

\* C8: when the local data loader fails for k, the lookup fails with the
\* loader's error: the caller that ran the load and every caller that
\* waited on its call get that error, the failing load stores nothing in
\* the cache, no lookup calls the loader or the peer twice, a waiter calls
\* neither, and the loader runs again for k only under a new call of the
\* dedup group.
C8_LoaderFailureIsTerminal ==
    /\ [](/\ \A p \in GProcs :
                /\ gLoad[p].loads <= 1
                /\ gLoad[p].fetches <= 1
                /\ gLoad[p].loadErr # Nil => gLoad[p].stores = 0
                /\ (gLoad[p].loadErr # Nil /\ gPc[p] = "idle") =>
                      gRet[p] = [value |-> <<>>, err |-> gLoad[p].loadErr]
                /\ (gPc[p] = "do" /\ Waiter(p)) =>
                      (gLoad[p].loads = 0 /\ gLoad[p].fetches = 0)
                /\ (ReturnedFromDo(p) /\ sfCalls[sfC[p]].err # Nil) =>
                      gRet[p] = [value |-> <<>>, err |-> sfCalls[sfC[p]].err]
          /\ \A key \in GKeys :
                gCount.loads[key] <=
                    Cardinality({c \in 1..Len(sfCalls) : sfCalls[c].key = key}))
    /\ [][\A p \in GProcs :
             (gLoad[p].loadErr = Nil /\ gLoad'[p].loadErr # Nil)
                 => mainCache' = mainCache]_vars

\* the loader failed once; the caller that ran it and the caller that waited
\* both returned its error, and k is not in the cache
C8_Witness ==
    \E p, q \in GProcs :
        /\ p # q
        /\ ReturnedFromDo(p) /\ ReturnedFromDo(q)
        /\ sfC[p] = sfC[q]
        /\ Waiter(q)
        /\ gRet[p] = [value |-> <<>>, err |-> "not found"]
        /\ gRet[q] = gRet[p]
        /\ gCount.loads["k"] = 1
        /\ ~Resident("k")

(***************************************************************************)
(* Claims about the peer picker (SpecPool, SpecRing).                      *)
(***************************************************************************)
\* the goroutine's PickPeer has read the ring and the client map
Picked(t) == poolSaw[t].ringBy > 0
Elems(s) == {s[i] : i \in 1..Len(s)}
\* the ring a Set of these peers builds
RingOf(peers) == RingAdd(RingNew(Replicas), peers)

\* C11: every PickPeer (made after a first Set returned, with Set and
\* PickPeer calls interleaved in any way) reads the ring and the client map
\* that one and the same Set call built, this Set being the one that
\* completed most recently when PickPeer holds p.mu; it returns (nil, false)
\* when the ring answers no peer or this node, and otherwise true with the
\* client whose base URL is that of the peer the ring answered, a peer of
\* that Set's list.
C11_PickSeesOneSet ==
    \A t \in DOMAIN poolPc :
        Picked(t) =>
            /\ poolSaw[t].ringBy = poolSaw[t].gettersBy
            /\ poolSaw[t].ringBy = poolSaw[t].doneBy
            /\ poolSaw[t].peer = RingGet(RingOf(poolSaw[t].done), poolArg[t].key)
            /\ IF poolSaw[t].peer = <<>> \/ poolSaw[t].peer = PoolSelf
               THEN poolRet[t].getter = <<>> /\ ~poolRet[t].ok
               ELSE /\ poolRet[t].ok
                    /\ poolRet[t].getter = <<NewGetter(poolSaw[t].peer)>>
                    /\ poolSaw[t].peer \in Elems(poolSaw[t].done)

\* a PickPeer made after the second Set returned, given the client of a
\* peer that the first Set did not have
C11_Witness ==
    \E t \in PoolProcs :
        /\ poolRet[t].returned
        /\ poolRet[t].ok
        /\ poolSaw[t].doneBy = 2
        /\ poolSaw[t].peer \in Elems(poolHist.ringOf) \ Elems(poolHist.prevOf)
        /\ poolHist.sets = 2
        /\ poolHist.picks = 1

\* list without its i-th element
Without(list, i) == SubSeq(list, 1, i - 1) \o SubSeq(list, i + 1, Len(list))
\* the positions at which list has a peer that smaller lacks, smaller being
\* list without it
NewPeerAt(smaller, list) ==
    {i \in 1..Len(list) :
        Without(list, i) = smaller /\ list[i] \notin Elems(smaller)}

\* C13: while the peer set stays as the last Set left it, PickPeer finds
\* the same owner for a key on every call; and when a Set replaces the ring
\* of a peer list P by the ring of P with one new peer q (before, between or
\* after the peers of P), every key whose owner differs between the two
\* rings is owned by q in the new ring, whatever the hash function.
C13_RingStability ==
    /\ \A key \in PoolKeys : Cardinality(poolHist.owners[key]) <= 1
    /\ (poolPeers # <<>> /\ poolHist.prev # <<>>) =>
          \A i \in NewPeerAt(poolHist.prevOf, poolHist.ringOf) :
              \A key \in PoolKeys :
                  \/ RingGet(poolPeers[1], key) = RingGet(poolHist.prev[1], key)
                  \/ RingGet(poolPeers[1], key) = poolHist.ringOf[i]

\* the ring of A, B was replaced by the ring of C, A, B: key x moved from B
\* to the new peer C, key y stayed with A, and PickPeer answered C for x
C13_Witness ==
    /\ poolHist.prev # <<>>
    /\ poolHist.prevOf = <<PoolSelf, <<"B">>>>
    /\ poolHist.ringOf = <<<<"C">>, PoolSelf, <<"B">>>>
    /\ RingGet(poolHist.prev[1], <<"x">>) = <<"B">>
    /\ RingGet(poolPeers[1], <<"x">>) = <<"C">>
    /\ RingGet(poolHist.prev[1], <<"y">>) = PoolSelf
    /\ RingGet(poolPeers[1], <<"y">>) = PoolSelf
    /\ poolHist.owners[<<"x">>] = {<<"C">>}
    /\ \A t \in DOMAIN poolPc : poolPc[t] = "idle" /\ poolRet[t].returned

\* the same key picked twice under one ring, with one answer
C13_WitnessRepeat ==
    /\ poolHist.sets = 1
    /\ poolHist.picks = 2
    /\ poolHist.owners[<<"x">>] = {<<"B">>}
    /\ poolHist.owners[<<"y">>] = {}
    /\ \A t \in DOMAIN poolPc : poolPc[t] = "idle" /\ poolRet[t].returned

(***************************************************************************)
(* Claims about the value container (SpecView).                            *)
(***************************************************************************)
\* a caller has written to a buffer ByteSlice gave it
Written ==
    \E ref \in viewBufs : viewHeap[ref] # viewBuilt

\* C12: ByteSlice returns a buffer with the bytes the ByteView was built
\* from, in storage of its own (not the ByteView's, not an earlier
\* buffer's); whatever callers then write to the buffers they hold, Len,
\* ByteSlice and String on the ByteView, and the ByteView cache.get returns
\* for the entry, keep giving the bytes it was built from.
C12_CopyOutIsACopy ==
    /\ viewEntry.b \notin viewBufs
    /\ viewHeap[viewEntry.b] = viewBuilt
    /\ viewLast.op = "ByteSlice" =>
          /\ viewLast.bytes = viewBuilt
          /\ viewLast.ref # viewEntry.b
    /\ viewLast.op = "Len" => viewLast.n = Len(viewBuilt)
    /\ viewLast.op = "String" => viewLast.bytes = viewBuilt
    /\ viewLast.op = "get" =>
          /\ viewLast.bytes = viewBuilt
          /\ ByteSliceIn(viewHeap, [b |-> viewLast.ref]).heap[Len(viewHeap) + 1]
                = viewBuilt

\* both bytes of the first buffer were overwritten, and a second ByteSlice
\* still returned 7, 8
C12_Witness ==
    /\ viewBuilt = <<7, 8>>
    /\ viewLast.op = "ByteSlice"
    /\ viewLast.bytes = <<7, 8>>
    /\ \E ref \in viewBufs : viewHeap[ref] = <<0, 9>>

(***************************************************************************)
(* Further claims about the call group (SpecSF, SpecSFFair, SpecSFHang).   *)
(***************************************************************************)
\* call c is the record the map holds for its key
InMap(c) == sfCalls[c].key \in DOMAIN sfM /\ sfM[sfCalls[c].key] = c

\* the owner of call c is inside Do, between registering c and deleting it
InsideDo(c) ==
    /\ sfC[sfCalls[c].owner] = c
    /\ sfPc[sfCalls[c].owner] \in {"fn", "done", "lock2", "delete"}

\* goroutine p looks its key up in the map
LookupStep(p) == sfPc[p] = "check" /\ sfPc'[p] # "check"

\* the record of a call is in the map from its registration on, as long as
\* its fn has not returned
PresentWhileRunning ==
    \A c \in 1..Len(sfCalls) : ~sfCalls[c].returned => InMap(c)

\* C17 as stated: the record is in the map while the computation runs, and
\* no Do call joins a call whose fn had returned when that Do call began.
C17_AsStated ==
    /\ PresentWhileRunning
    /\ \A p \in DOMAIN sfPc : sfC[p] > 0 => sfC[p] \notin sfSaw[p].finished

\* C17: the record of a call is in the map exactly from its registration
\* until its owner deletes it, which covers the whole run of fn; a Do call
\* that looks its key up when the map has no record for it registers a new
\* call of its own and runs its own fn, and a Do call that looks its key up
\* while the record is still there joins that call, even when the call's fn
\* had already returned when the Do call began; the owner of a call never
\* began it with a result of that call at hand.
C17_NoResultCaching ==
    /\ [](/\ PresentWhileRunning
          /\ \A c \in 1..Len(sfCalls) : InMap(c) <=> InsideDo(c)
          /\ \A c \in 1..Len(sfCalls) :
                c \notin sfSaw[sfCalls[c].owner].finished
                    \/ sfC[sfCalls[c].owner] # c)
    /\ [][\A p \in DOMAIN sfPc :
            LookupStep(p) =>
                IF sfKey[p] \in DOMAIN sfM
                THEN /\ sfC'[p] = sfM[sfKey[p]]
                     /\ sfPc'[p] = "wait"
                     /\ sfCalls' = sfCalls
                ELSE /\ sfC'[p] = Len(sfCalls) + 1
                     /\ sfCalls' = Append(sfCalls, NewCall(sfKey[p], p))
                     /\ sfPc'[p] = "fn"]_vars

\* two Do calls of one key that both began after the key's first
\* computation had finished: the one that looked the key up before the
\* delete is back with the first result, the one that looked it up after the
\* delete ran its own fn and is back with a different result
C17_Witness ==
    \E p, q \in SFProcs :
        /\ sfKey[p] = sfKey[q]
        /\ sfSaw[p].finished = {1} /\ sfSaw[q].finished = {1}
        /\ sfC[p] = 1 /\ sfRet[p] = ResultOf(1)
        /\ sfC[q] = 2 /\ sfCalls[2].owner = q /\ sfCalls[2].execs = 1
        /\ sfRet[q] = ResultOf(2)
        /\ ResultOf(2) # ResultOf(1)

\* C18: g.mu is held only by a goroutine that is looking its key up (and
\* registering) or deleting its record, never by one that runs fn or waits
\* on a WaitGroup; and when the fn called for HangKey may run for ever,
\* every Do call for another key still returns.
C18_LockOnlyForMap ==
    /\ [](\A p \in DOMAIN sfPc : sfMu = p => sfPc[p] \in {"check", "delete"})
    /\ \A q \in SFProcs :
          (sfPc[q] # "idle" /\ sfKey[q] # HangKey)
              ~> (sfPc[q] = "idle" /\ Returned(q))

\* a Do call for another key registered its call after the one for HangKey,
\* ran its fn and is back, while the fn for HangKey is still running
C18_Witness ==
    \E p, q \in SFProcs :
        /\ sfPc[p] = "fn" /\ sfKey[p] = HangKey
        /\ sfKey[q] \in SFKeys \ {HangKey}
        /\ sfPc[q] = "idle" /\ Returned(q)
        /\ sfC[q] > sfC[p]
        /\ sfCalls[sfC[q]].owner = q /\ sfCalls[sfC[q]].execs = 1

\* the Do of the owner of call c is over
OwnerBack(c) ==
    sfC[sfCalls[c].owner] # c \/ sfPc[sfCalls[c].owner] = "idle"

\* C19: when every fn returns and scheduling is fair, every Do call, of an
\* owner or of a waiter, returns; the WaitGroup of a call goes from 1 to 0
\* once, after fn has returned and before the owner's Do returns, and never
\* changes again; when no goroutine is inside Do the map is empty; and a
\* record leaves the map only by the delete of the goroutine that
\* registered it.
C19_Progress ==
    /\ \A p \in SFProcs : (sfPc[p] # "idle") ~> (sfPc[p] = "idle" /\ Returned(p))
    /\ [](\A c \in 1..Len(sfCalls) :
            /\ sfCalls[c].wg \in {0, 1}
            /\ sfCalls[c].wg = 0 => sfCalls[c].returned
            /\ OwnerBack(c) => sfCalls[c].wg = 0)
    /\ [][\A c \in 1..Len(sfCalls) :
            sfCalls[c].wg = 0 => sfCalls'[c].wg = 0]_vars
    /\ []((\A p \in DOMAIN sfPc : sfPc[p] = "idle") => sfM = <<>>)
    /\ [][\A key \in DOMAIN sfM :
            key \notin DOMAIN sfM' =>
                /\ sfPc[sfCalls[sfM[key]].owner] = "delete"
                /\ sfPc'[sfCalls[sfM[key]].owner] = "idle"
                /\ sfC[sfCalls[sfM[key]].owner] = sfM[key]]_vars

\* three Do calls are over: an owner and a waiter of one call and the owner
\* of another one; both WaitGroups are at 0 and the map is empty
C19_Witness ==
    /\ sfStarted = MaxDo
    /\ \A p \in SFProcs : sfPc[p] = "idle" /\ Returned(p)
    /\ Len(sfCalls) = 2
    /\ \A c \in 1..2 : sfCalls[c].wg = 0
    /\ \E p \in SFProcs : sfSaw[p].inflight # {} /\ sfCalls[sfC[p]].owner # p
    /\ sfM = <<>>

(***************************************************************************)
(* Claims about the cache guard (SpecGuard).                               *)
(***************************************************************************)
\* goroutine t is between c.mu.Lock() and the deferred c.mu.Unlock()
Inside(t) == guardPc[t] \in {"test", "new", "op", "unlock"}

\* the value the store holds for key
StoredValue(c, key) == c.ll[PosOf(c.ll, c.cache[key])].value

\* C20: with goroutines calling add and get concurrently, at most one of
\* them is between Lock and Unlock, and it holds c.mu; lru.New runs at most
\* once, in the first add that takes the lock, with c.cacheBytes; only an
\* add makes c.lru non-nil; on a store without a capacity limit every key
\* an add has stored is in the store with the value last added for it; and
\* a get that takes the lock before any add has taken it returns not found
\* and leaves c.lru nil.
C20_GuardSerialises ==
    /\ [](/\ Cardinality({t \in DOMAIN guardPc : Inside(t)}) <= 1
          /\ \A t \in DOMAIN guardPc : Inside(t) => guardMu = t)
    /\ [](/\ guardHist.news <= 1
          /\ guardHist.newAt \subseteq {1}
          /\ guardC.lru = <<>> <=> guardHist.news = 0
          /\ guardC.lru # <<>> => guardC.lru[1].maxBytes = guardC.cacheBytes
          /\ guardC.lru = <<>> => DOMAIN guardHist.added = {})
    /\ [](guardC.lru # <<>> /\ guardC.cacheBytes = 0 =>
            \A key \in DOMAIN guardHist.added :
                /\ key \in Live(guardC.lru[1])
                /\ StoredValue(guardC.lru[1], key) = guardHist.added[key])
    /\ [](\A t \in DOMAIN guardPc :
            guardArg[t].op = "get" /\ guardRet[t].early =>
                /\ ~guardRet[t].ok /\ guardRet[t].value = <<>>
                /\ guardPc[t] \in {"test", "unlock"} => guardC.lru = <<>>)
    /\ [][guardC.lru = <<>> /\ guardC'.lru # <<>> =>
            \E t \in DOMAIN guardPc :
                /\ guardArg[t].op = "add"
                /\ guardPc[t] = "new" /\ guardPc'[t] = "op"]_vars

\* a get came back not found from the nil store; then two adds raced for
\* the lock, the first made the store, and both their entries are in it
C20_Witness ==
    /\ guardHist.calls = MaxGuardCalls
    /\ \A t \in GuardProcs : guardPc[t] = "idle" /\ guardRet[t].returned
    /\ \E t \in GuardProcs :
          guardArg[t].op = "get" /\ guardRet[t].early /\ ~guardRet[t].ok
    /\ guardHist.locked = 2
    /\ guardHist.news = 1
    /\ guardC.cacheBytes = 0
    /\ Live(guardC.lru[1]) = GuardKeys

=============================================================================
